---- MODULE Spec2Model ----
(***************************************************************************)
(* Model of the virtual-DOM reconciler of domafic (src/src/web_render.rs). *)
(* The application (state, update, render), the rendered logical tree, the *)
(* persisted shadow tree (VDomNode) and the browser document behind the    *)
(* JavaScript element pool are the state; mounting (run) and the steps of  *)
(* the event callback (handle_listener) are the actions.                   *)
(* Vector indices are 0-based as in the source; a TLA+ sequence s holds    *)
(* the element of index i at s[i + 1].                                     *)
(***************************************************************************)
EXTENDS Integers, Sequences, FiniteSets, TLC

\* ------------------------------------------------------------------ bounds
\* Keys of list items are drawn from 0 .. NumKeys - 1.
NumKeys == 3
\* Attribute lists hold at most MaxAttrs entries.
MaxAttrs == 2
\* Text contents are the first NumTexts letters.
NumTexts == 2
\* The closures of a listener slot are the first NumClosures messages.
NumClosures == 2
\* At most MaxCalls builder calls are made on a node.
MaxCalls == 3
\* A failing browser fails a call after at most MaxFaultAt good ones of its kind.
MaxFaultAt == 1

\* --------------------------------------------------------------- sequences
RemoveAt(s, i) == SubSeq(s, 1, i) \o SubSeq(s, i + 2, Len(s))

InsertAt(s, i, x) == SubSeq(s, 1, i) \o <<x>> \o SubSeq(s, i + 1, Len(s))

Range(s) == {s[i] : i \in 1..Len(s)}

\* -------------------------------------------------------------------- Keys
KEY_STACK_LEN == 32

KeysNew == [size |-> 0, stack |-> [i \in 0..(KEY_STACK_LEN - 1) |-> 0]]

\* The last slot of the array is never used.
KeysFullEarly(ks) == ks.size >= KEY_STACK_LEN - 1

\* Keys::push; the caller checks KeysFull first (the push of a 33rd key
\* panics: debug_assert, and the array index is out of bounds).
KeysFull(ks) == ks.size >= KEY_STACK_LEN

\* The key is written to the slot above the new top as well.
KeysPushAbove(ks, key) ==
    [size |-> ks.size + 1,
     stack |-> [i \in 0..(KEY_STACK_LEN - 1) |->
                   IF i = ks.size \/ i = (ks.size + 1) % KEY_STACK_LEN
                   THEN key ELSE ks.stack[i]]]

KeysPush(ks, key) ==
    [size |-> ks.size + 1, stack |-> [ks.stack EXCEPT ![ks.size] = key]]

\* IntoIterator for Keys / KeyIter::next: the keys from bottom to top.
KeyIterSeq(ks) == [i \in 1..ks.size |-> ks.stack[i - 1]]

\* ----------------------------------------------------------- logical nodes
\* DomValue
Tag(t) == [kind |-> "Tag", s |-> t]

Text(t) == [kind |-> "Text", s |-> t]

\* A logical node: key is <<>> (None) or <<k>> (Some(k)); attributes is a
\* sequence of <<name, value>>; a listener is the address of the listener
\* object in the rendered tree (ptr), the event type it handles (ev) and the
\* message its closure produces (f).
Node(value, key, attributes, listeners, children) ==
    [value |-> value, key |-> key, attributes |-> attributes,
     listeners |-> listeners, children |-> children]

Listener(ptr, ev, f) == [ptr |-> ptr, ev |-> ev, f |-> f]

\* ------------------------------------------------- the host: pool and DOM
\* The host record h: poolLen and free are __domafic_pool's length and
\* __domafic_pool_free; live is the set of pool indices owned by a
\* WebElement; nodes maps the pool index of a DOM element to its tag / text,
\* properties and element children; subs is the set of registered event
\* callbacks; calls is the log of the mutations issued; panicked records a
\* panic of the Rust side.  fault is <<>> or <<kind, n>>: the browser fails
\* the call of that kind ("create", "insert", "move") that follows n good ones.
\* reentered records that a host call ran handle_listener before it returned;
\* what the program does from there on is undefined.

\* var index = __domafic_pool_free.pop(); if (index) { reuse } else push
PoolAlloc(h) ==
    IF h.free # <<>> /\ h.free[Len(h.free)] # 0
    THEN [h |-> [h EXCEPT !.free = SubSeq(@, 1, Len(@) - 1),
                          !.live = @ \cup {h.free[Len(h.free)]}],
          id |-> h.free[Len(h.free)]]
    ELSE [h |-> [h EXCEPT !.free = SubSeq(@, 1, Len(@) - 1),
                          !.poolLen = @ + 1,
                          !.live = @ \cup {h.poolLen}],
          id |-> h.poolLen]

HasParent(h, id) ==
    \E p \in DOMAIN h.nodes : id \in Range(h.nodes[p].kids)

\* Drop for WebElement: delete __domafic_pool[id]; free.push(id).  The DOM
\* object the index named is garbage once it is detached from its parent.
PoolFree(h, id) ==
    LET gone == id \in DOMAIN h.nodes /\ ~HasParent(h, id)
    IN  [h EXCEPT !.free = Append(@, id),
                  !.live = @ \ {id},
                  !.nodes = IF gone
                            THEN [n \in (DOMAIN @) \ {id} |-> @[n]]
                            ELSE @,
                  !.subs = IF gone THEN {s \in @ : s.node # id} ELSE @]

\* The pool indices a host call dereferences (__domafic_pool[$n]).
CallHandles(call) ==
    CASE call.op \in {"create_element", "create_text", "remove_node",
                      "set_attribute", "remove_attribute"} -> {call.node}
      [] call.op = "insert_child" -> {call.parent, call.child}
      [] call.op = "move_child" -> {call.parent}
      [] call.op \in {"add_listener", "remove_listener"} ->
             {call.node, call.listener}

\* One host call: it is appended to the log; stale records that some call
\* dereferenced a pool index no WebElement owned.
Log(h, call) ==
    [h EXCEPT !.calls = Append(@, call),
              !.stale = @ \/ ~(CallHandles(call) \subseteq h.live)]

\* The browser fails the next call of this kind.
Fails(h, kind) ==
    h.fault # <<>> /\ h.fault[1] = kind /\ h.fault[2] = 0

\* The browser has failed a call.
FaultHit(h) ==
    h.fault # <<>> /\ h.fault[2] < 0

\* One more call of this kind was made.
Tick(h, kind) ==
    IF h.fault # <<>> /\ h.fault[1] = kind
    THEN [h EXCEPT !.fault[2] = @ - 1]
    ELSE h

\* The call comes back negative (id < 0, err < 0): unwrap() of the None, or
\* panic!("Attempted to insert child DOM element out of bounds").
Rejected(h, call) ==
    [h EXCEPT !.calls = Append(@, call), !.panicked = TRUE]

NewDomNode(kind, name) ==
    [kind |-> kind, name |-> name, attrs |-> [n \in {} |-> ""], kids |-> <<>>]

PutNode(h, id, n) ==
    [h EXCEPT !.nodes = [x \in (DOMAIN @) \cup {id} |-> IF x = id THEN n ELSE @[x]]]

\* The new element under the pool index the allocation a returned.
ElementAt(a, tagname) ==
    [h |-> Log(PutNode(a.h, a.id, NewDomNode("element", tagname)),
               [op |-> "create_element", tag |-> tagname, node |-> a.id]),
     id |-> a.id]

\* if (!elem) { return -1; } comes before the pool allocation.
HostCreateElement(h, tagname) ==
    IF Fails(h, "create")
    THEN [h |-> Rejected(Tick(h, "create"),
                         [op |-> "create_element", tag |-> tagname,
                          node |-> -1]),
          id |-> -1]
    ELSE ElementAt(PoolAlloc(Tick(h, "create")), tagname)

\* The text is wrapped in a span, which is the element the pool holds.
TextAt(a, text) ==
    [h |-> Log(PutNode(a.h, a.id, NewDomNode("text", text)),
               [op |-> "create_text", text |-> text, node |-> a.id]),
     id |-> a.id]

HostCreateTextNode(h, text) ==
    IF Fails(h, "create")
    THEN [h |-> Rejected(Tick(h, "create"),
                         [op |-> "create_text", text |-> text, node |-> -1]),
          id |-> -1]
    ELSE TextAt(PoolAlloc(Tick(h, "create")), text)

\* The child is placed by its pool index, not by the index given.
HostInsertByHandle(h, parent, index, child) ==
    [Log(h, [op |-> "insert_child", parent |-> parent,
             index |-> child % (Len(h.nodes[parent].kids) + 1),
             child |-> child])
     EXCEPT !.nodes[parent].kids =
                InsertAt(@, child % (Len(@) + 1), child)]

HostInsert(h, parent, index, child) ==
    IF index > Len(h.nodes[parent].kids) \/ Fails(h, "insert")
    THEN Rejected(Tick(h, "insert"),
                  [op |-> "insert_child", parent |-> parent,
                   index |-> index, child |-> child])
    ELSE [Log(Tick(h, "insert"),
              [op |-> "insert_child", parent |-> parent,
               index |-> index, child |-> child])
          EXCEPT !.nodes[parent].kids = InsertAt(@, index, child)]

\* parent.insertBefore(parent.children[old], parent.children[new]), or
\* appendChild when new is the child count.
MoveKids(kids, old, new) ==
    IF new = Len(kids) THEN Append(RemoveAt(kids, old), kids[old + 1])
    ELSE IF new = old THEN kids
    ELSE InsertAt(RemoveAt(kids, old), IF new < old THEN new ELSE new - 1,
                  kids[old + 1])

HostMoveChild(h, parent, old_index, new_index) ==
    IF \/ old_index >= Len(h.nodes[parent].kids)
       \/ new_index > Len(h.nodes[parent].kids)
       \/ Fails(h, "move")
    THEN Rejected(Tick(h, "move"),
                  [op |-> "move_child", parent |-> parent,
                   from |-> old_index, to |-> new_index])
    ELSE [Log(Tick(h, "move"),
              [op |-> "move_child", parent |-> parent,
               from |-> old_index, to |-> new_index])
          EXCEPT !.nodes[parent].kids = MoveKids(@, old_index, new_index)]

\* The event types the browser dispatches inside removeChild, before it
\* returns, to the node that is removed.
RemovalEvents == {"DOMNodeRemoved"}

\* removeChild runs the callbacks registered on the node for a removal
\* event: each calls handle_listener while the caller is still inside its
\* own.
RaisedByRemoval(h, id) ==
    \E s \in h.subs : s.node = id /\ s.ev \in RemovalEvents

\* if (elem.parentNode) { elem.parentNode.removeChild(elem); }
HostRemoveSelf(h, id) ==
    [Log(h, [op |-> "remove_node", node |-> id])
        EXCEPT !.nodes = [p \in DOMAIN @ |->
                             [@[p] EXCEPT !.kids = SelectSeq(@, LAMBDA c : c # id)]],
               !.reentered = @ \/ RaisedByRemoval(h, id)]

\* The children the element had are left in place.
HostRemoveAllChildrenKeep(h, id) == h

\* while (elem.hasChildNodes()) { elem.removeChild(elem.lastChild); }
\* The removed children have no pool index, so nothing refers to them.
HostRemoveAllChildren(h, id) ==
    LET old == Range(h.nodes[id].kids)
    IN  [h EXCEPT !.nodes = [n \in (DOMAIN @) \ old |->
                                IF n = id THEN [@[n] EXCEPT !.kids = <<>>]
                                ELSE @[n]]]

\* __domafic_pool[id][name] = value
HostSetAttribute(h, id, kv) ==
    LET logged == Log(h, [op |-> "set_attribute", node |-> id,
                          name |-> kv[1], value |-> kv[2]])
    IN  [logged EXCEPT !.nodes[id].attrs =
            [n \in (DOMAIN @) \cup {kv[1]} |-> IF n = kv[1] THEN kv[2] ELSE @[n]]]

\* __domafic_pool[id][name] = null
HostRemoveAttribute(h, id, name) ==
    LET logged == Log(h, [op |-> "remove_attribute", node |-> id, name |-> name])
    IN  [logged EXCEPT !.nodes[id].attrs =
            [n \in (DOMAIN @) \cup {name} |-> IF n = name THEN "null" ELSE @[n]]]

\* The callback under the pool index the allocation a returned: it captures
\* the listener pointer and the keys.
CallbackAt(a, id, event_name, listener_ptr, keys) ==
    [h |-> Log([a.h EXCEPT !.subs = @ \cup
                   {[node |-> id, ev |-> event_name, cb |-> a.id,
                     ptr |-> listener_ptr, keys |-> keys]}],
               [op |-> "add_listener", node |-> id, ev |-> event_name,
                ptr |-> listener_ptr, keys |-> KeyIterSeq(keys),
                listener |-> a.id]),
     id |-> a.id]

\* addEventListener with a callback that gets a pool index of its own.
HostSetListener(h, id, event_name, listener_ptr, keys) ==
    CallbackAt(PoolAlloc(h), id, event_name, listener_ptr, keys)

\* The call is issued but the callback stays registered.
HostRemoveListenerKeep(h, id, event_name, listener) ==
    Log(h, [op |-> "remove_listener", node |-> id, ev |-> event_name,
            listener |-> listener])

\* removeEventListener(event_name, __domafic_pool[listener])
HostRemoveListener(h, id, event_name, listener) ==
    LET logged == Log(h, [op |-> "remove_listener", node |-> id,
                          ev |-> event_name, listener |-> listener])
    IN  [logged EXCEPT !.subs =
            {s \in @ : ~(s.node = id /\ s.ev = event_name /\ s.cb = listener)}]

\* ------------------------------------------------------------ shadow tree
\* VDomNode; a listener entry is the tuple (WebElement, *const Listener,
\* &'static str) as a record [element, ptr, ev].
VDomNode(value, keys, web_element, attributes, listeners, children) ==
    [value |-> value, keys |-> keys, web_element |-> web_element,
     attributes |-> attributes, listeners |-> listeners, children |-> children]

\* DomValue -> VNodeValue: the text of a Text node is part of the value, and
\* the derived PartialEq compares it.
VNodeValueOf(node) == node.value

\* The WebElements of the listener entries are forgotten, not dropped.
DropListenersLeak(h, listeners) == h

RECURSIVE DropListeners(_, _)
\* Dropping Vec<(WebElement, ptr, str)> drops each callback's WebElement.
DropListeners(h, listeners) ==
    IF listeners = <<>> THEN h
    ELSE DropListeners(PoolFree(h, Head(listeners).element), Tail(listeners))

RECURSIVE DropVNode(_, _)
RECURSIVE DropLevel(_, _)
\* Dropping a VDomNode drops its fields in declaration order: web_element,
\* listeners, children.
DropVNode(h, vnode) ==
    DropLevel(DropListeners(PoolFree(h, vnode.web_element), vnode.listeners),
              vnode.children)

DropLevel(h, level) ==
    IF level = <<>> THEN h
    ELSE DropLevel(DropVNode(h, Head(level)), Tail(level))

\* The accumulator of the WebWriter processor.
WebWriterAcc(h, keys, parent_element, node_level, node_index) ==
    [h |-> h, keys |-> keys, parent_element |-> parent_element,
     node_level |-> node_level, node_index |-> node_index]

\* A text node matches a text node whatever the two contents are.
IsMatchAnyText(trial_vnode, keys, vnode_value) ==
    trial_vnode.keys = keys /\ trial_vnode.value.kind = vnode_value.kind
        /\ (vnode_value.kind = "Tag" => trial_vnode.value = vnode_value)

\* "Match iff "keys" and "value" are equal": Keys and VNodeValue derive
\* PartialEq, so the text of a Text value is compared too.
IsMatch(trial_vnode, keys, vnode_value) ==
    trial_vnode.keys = keys /\ trial_vnode.value = vnode_value

RECURSIVE FindMatch(_, _, _, _)
\* A scan that keeps the last index that matches.
FindMatchLast(node_level, trial_index, keys, vnode_value) ==
    IF trial_index >= Len(node_level) THEN <<>>
    ELSE LET later ==
                 FindMatch(node_level, trial_index + 1, keys, vnode_value)
         IN  IF later # <<>> THEN later
             ELSE IF IsMatch(node_level[trial_index + 1], keys, vnode_value)
                  THEN <<trial_index>>
                  ELSE <<>>

\* The match scan: the first trial_index onwards that matches; <<>> is None.
FindMatch(node_level, trial_index, keys, vnode_value) ==
    IF trial_index >= Len(node_level) THEN <<>>
    ELSE IF IsMatch(node_level[trial_index + 1], keys, vnode_value)
         THEN <<trial_index>>
         ELSE FindMatch(node_level, trial_index + 1, keys, vnode_value)

\* No entry ever equals a candidate listener.
SameListenerNever(entry, listener) == FALSE

\* The event type is not compared.
SameListenerAnyEvent(entry, listener) == entry.ptr = listener.ptr

\* The pointer is not compared.
SameListenerAnyPointer(entry, listener) == entry.ev = listener.ev

\* *old_ptr == *listener && *old_str == (**listener).event_type_handled()
SameListener(entry, listener) ==
    entry.ptr = listener.ptr /\ entry.ev = listener.ev

RECURSIVE RemoveExcessListeners(_, _, _)
\* "Remove excess listeners" of the matched node r.vnode, from index i on;
\* r is [h, vnode] and so is the result.
RemoveExcessListeners(r, listeners, i) ==
    IF i >= Len(r.vnode.listeners) THEN r
    ELSE IF ~\E k \in 1..Len(listeners) :
                 SameListener(r.vnode.listeners[i + 1], listeners[k])
    THEN RemoveExcessListeners(
             [h |-> PoolFree(HostRemoveListener(r.h, r.vnode.web_element,
                                                r.vnode.listeners[i + 1].ev,
                                                r.vnode.listeners[i + 1].element),
                             r.vnode.listeners[i + 1].element),
              vnode |-> [r.vnode EXCEPT !.listeners = RemoveAt(@, i)]],
             listeners, i)
    ELSE RemoveExcessListeners(r, listeners, i + 1)

\* The entry (element, listener, event_type) of the subscription s pushed
\* onto a listener vector; the result is [h, listeners].
Subscribed(listeners_with_metadata, listener, s) ==
    [h |-> s.h,
     listeners |-> Append(listeners_with_metadata,
                          [element |-> s.id, ptr |-> listener.ptr,
                           ev |-> listener.ev])]

\* vnode.listeners.push(..) after set_listener; a is [h, listeners].
WithListeners(vnode, a) ==
    [h |-> a.h, vnode |-> [vnode EXCEPT !.listeners = a.listeners]]

RECURSIVE AddNewListeners(_, _, _)
\* "Add new listeners"; r is [h, vnode] and so is the result.
AddNewListeners(r, listeners, keys) ==
    IF listeners = <<>> THEN r
    ELSE IF ~\E k \in 1..Len(r.vnode.listeners) :
                 SameListener(r.vnode.listeners[k], Head(listeners))
    THEN AddNewListeners(
             WithListeners(r.vnode,
                 Subscribed(r.vnode.listeners, Head(listeners),
                     HostSetListener(r.h, r.vnode.web_element,
                                     Head(listeners).ev, Head(listeners).ptr,
                                     keys))),
             Tail(listeners), keys)
    ELSE AddNewListeners(r, Tail(listeners), keys)

\* No shadow attribute ever equals a candidate attribute.
HasAttributeNever(vnode_attributes, new_attribute) == FALSE

\* vnode.attributes.contains(new_attribute)
HasAttribute(vnode_attributes, new_attribute) ==
    \E k \in 1..Len(vnode_attributes) : vnode_attributes[k] = new_attribute

RECURSIVE RemoveExcessAttributes(_, _, _)
\* An old attribute stays if the candidate has one of its name.
RemoveExcessAttributesByName(r, attributes, i) ==
    IF i >= Len(r.vnode.attributes) THEN r
    ELSE IF ~\E k \in 1..Len(attributes) :
                 attributes[k][1] = r.vnode.attributes[i + 1][1]
    THEN RemoveExcessAttributes(
             [h |-> HostRemoveAttribute(r.h, r.vnode.web_element,
                                        r.vnode.attributes[i + 1][1]),
              vnode |-> [r.vnode EXCEPT !.attributes = RemoveAt(@, i)]],
             attributes, i)
    ELSE RemoveExcessAttributes(r, attributes, i + 1)

\* "Remove excess attributes": an old (name, value) pair stays only if the
\* candidate has an equal pair; r is [h, vnode] and so is the result.
RemoveExcessAttributes(r, attributes, i) ==
    IF i >= Len(r.vnode.attributes) THEN r
    ELSE IF ~\E k \in 1..Len(attributes) :
                 attributes[k] = r.vnode.attributes[i + 1]
    THEN RemoveExcessAttributes(
             [h |-> HostRemoveAttribute(r.h, r.vnode.web_element,
                                        r.vnode.attributes[i + 1][1]),
              vnode |-> [r.vnode EXCEPT !.attributes = RemoveAt(@, i)]],
             attributes, i)
    ELSE RemoveExcessAttributes(r, attributes, i + 1)

RECURSIVE AddNewAttributes(_, _)
\* "Add new attributes"; r is [h, vnode] and so is the result.
AddNewAttributes(r, attributes) ==
    IF attributes = <<>> THEN r
    ELSE IF ~HasAttribute(r.vnode.attributes, Head(attributes))
    THEN AddNewAttributes(
             [h |-> HostSetAttribute(r.h, r.vnode.web_element, Head(attributes)),
              vnode |-> [r.vnode EXCEPT !.attributes = Append(@, Head(attributes))]],
             Tail(attributes))
    ELSE AddNewAttributes(r, Tail(attributes))

\* The left-over shadow nodes are dropped without remove_self.
RemoveUnusedNoRemoveSelf(h, children, child_node_index) ==
    [h |-> DropLevel(h, SubSeq(children, child_node_index + 1, Len(children))),
     children |-> SubSeq(children, 1, child_node_index)]

RECURSIVE RemoveUnused(_, _, _)
\* "Remove DOM elements left over from the last render that weren't
\* repurposed": pop, remove_self, drop.  The result is [h, children].
RemoveUnused(h, children, child_node_index) ==
    IF child_node_index >= Len(children) THEN [h |-> h, children |-> children]
    ELSE RemoveUnused(
             DropVNode(HostRemoveSelf(h, children[Len(children)].web_element),
                       children[Len(children)]),
             SubSeq(children, 1, Len(children) - 1),
             child_node_index)

RECURSIVE SetListeners(_, _, _, _)
\* The listeners of a new element, attached in order; r is [h, listeners]
\* (listeners_with_metadata) and so is the result.
SetListeners(r, html_element, listeners, keys) ==
    IF listeners = <<>> THEN r
    ELSE SetListeners(
             Subscribed(r.listeners, Head(listeners),
                 HostSetListener(r.h, html_element, Head(listeners).ev,
                                 Head(listeners).ptr, keys)),
             html_element, Tail(listeners), keys)

\* The attributes of a new element, set in order.
RECURSIVE SetAttributes(_, _, _)
SetAttributes(h, html_element, attributes) ==
    IF attributes = <<>> THEN h
    ELSE SetAttributes(HostSetAttribute(h, html_element, Head(attributes)),
                       html_element, Tail(attributes))

\* A key of 0 is taken for no key.
NodeKeysNonZero(acc_keys, node) ==
    IF node.key # <<>> /\ node.key[1] # 0
    THEN KeysPush(acc_keys, node.key[1]) ELSE acc_keys

\* let keys = if let Some(new_key) = node.key() { acc.keys.push(new_key) }
\*            else { acc.keys };
NodeKeys(acc_keys, node) ==
    IF node.key # <<>> THEN KeysPush(acc_keys, node.key[1]) ELSE acc_keys

\* The children inherit the accumulator's keys, not the node's.
ChildKeysOfParent(acc_keys, keys) == acc_keys

\* The keys handed to the accumulator of a node's children: `keys: keys`.
ChildKeys(acc_keys, keys) == keys

\* The index the match scan starts at: `let mut trial_index = *acc.node_index`.
ScanStart(node_index) == node_index

\* A matched node is never moved.
NeedsMoveNever(node_index, vnode_index) == FALSE

\* A matched node is moved wherever it was found.
NeedsMoveAlways(node_index, vnode_index) == TRUE

\* `if *acc.node_index != vnode_index`
NeedsMove(node_index, vnode_index) == node_index # vnode_index

\* A new node is always inserted first.
InsertIndexFirst(node_index) == 0

\* A new node is inserted one place past the candidate's index.
InsertIndexPast(node_index) == node_index + 1

\* The index of insert: `acc.parent_element.insert(*acc.node_index, ..)`.
InsertIndex(node_index) == node_index

RECURSIVE ProcessAll(_, _)
RECURSIVE AddNode(_, _)

\* The moved node is inserted at the new index and left at the old one too.
ModifyMoveKeepOld(acc, vnode_index, vnode, r5) ==
    [acc EXCEPT
        !.h = IF acc.node_index # vnode_index
              THEN HostMoveChild(r5.h, acc.parent_element, vnode_index,
                                 acc.node_index)
              ELSE r5.h,
        !.node_level = IF acc.node_index # vnode_index
                       THEN InsertAt(@, acc.node_index,
                                     [vnode EXCEPT !.children = r5.children])
                       ELSE [@ EXCEPT ![vnode_index + 1] =
                                [vnode EXCEPT !.children = r5.children]],
        !.node_index = @ + 1]

\* The matched node is stored back with the key path of its parent.
ModifyMoveRekeyed(acc, vnode_index, vnode, r5) ==
    IF NeedsMove(acc.node_index, vnode_index)
    THEN [acc EXCEPT
             !.h = HostMoveChild(r5.h, acc.parent_element, vnode_index,
                                 acc.node_index),
             !.node_level = InsertAt(RemoveAt(@, vnode_index), acc.node_index,
                                     [vnode EXCEPT !.children = r5.children,
                                                   !.keys = acc.keys]),
             !.node_index = @ + 1]
    ELSE [acc EXCEPT
             !.h = r5.h,
             !.node_level[vnode_index + 1] = [vnode EXCEPT !.children = r5.children,
                                                           !.keys = acc.keys],
             !.node_index = @ + 1]

\* The matched node changes places with the node at the cursor.
ModifyMoveSwap(acc, vnode_index, vnode, r5) ==
    IF NeedsMove(acc.node_index, vnode_index)
    THEN [acc EXCEPT
             !.h = HostMoveChild(r5.h, acc.parent_element, vnode_index,
                                 acc.node_index),
             !.node_level = [@ EXCEPT
                                ![vnode_index + 1] = acc.node_level[acc.node_index + 1],
                                ![acc.node_index + 1] =
                                    [vnode EXCEPT !.children = r5.children]],
             !.node_index = @ + 1]
    ELSE [acc EXCEPT
             !.h = r5.h,
             !.node_level[vnode_index + 1] = [vnode EXCEPT !.children = r5.children],
             !.node_index = @ + 1]

\* The matched node after "Move the element if the new index is different
\* from the old one"; r5 is the cleaned child level [h, children].
ModifyMove(acc, vnode_index, vnode, r5) ==
    IF NeedsMove(acc.node_index, vnode_index)
    THEN [acc EXCEPT
             !.h = HostMoveChild(r5.h, acc.parent_element, vnode_index,
                                 acc.node_index),
             !.node_level = InsertAt(RemoveAt(@, vnode_index), acc.node_index,
                                     [vnode EXCEPT !.children = r5.children]),
             !.node_index = @ + 1]
    ELSE [acc EXCEPT
             !.h = r5.h,
             !.node_level[vnode_index + 1] = [vnode EXCEPT !.children = r5.children],
             !.node_index = @ + 1]

\* The matched node once its children are processed: new_acc is the
\* accumulator of the children.
ModifyCleanup(acc, vnode_index, vnode, new_acc) ==
    IF new_acc.h.panicked THEN [acc EXCEPT !.h = new_acc.h]
    ELSE ModifyMove(acc, vnode_index, vnode,
                    RemoveUnused(new_acc.h, new_acc.node_level, new_acc.node_index))

RECURSIVE Cousins(_)
\* The children of all the nodes of a level, in order.
Cousins(node_level) ==
    IF node_level = <<>> THEN <<>>
    ELSE Head(node_level).children \o Cousins(Tail(node_level))

\* The children of the matched node are matched against the children of
\* all its siblings.
ModifyChildrenOfLevel(acc, node, keys, vnode_index, r) ==
    ModifyCleanup(acc, vnode_index, r.vnode,
        ProcessAll(WebWriterAcc(r.h, ChildKeys(acc.keys, keys),
                                r.vnode.web_element, Cousins(acc.node_level), 0),
                   node.children))

\* "To the children!" of the matched node: r is [h, vnode] after the
\* listener and attribute diff.
ModifyChildren(acc, node, keys, vnode_index, r) ==
    ModifyCleanup(acc, vnode_index, r.vnode,
        ProcessAll(WebWriterAcc(r.h, ChildKeys(acc.keys, keys),
                                r.vnode.web_element, r.vnode.children, 0),
                   node.children))

\* The matched branch of add_node: vnode_index is the match.
ModifyExisting(acc, node, keys, vnode_index) ==
    ModifyChildren(acc, node, keys, vnode_index,
        AddNewAttributes(
            RemoveExcessAttributes(
                AddNewListeners(
                    RemoveExcessListeners(
                        [h |-> acc.h, vnode |-> acc.node_level[vnode_index + 1]],
                        node.listeners, 0),
                    node.listeners, keys),
                node.attributes, 0),
            node.attributes))

\* The new node inserted at the candidate's index; r5 is the cleaned child
\* level [h, children].
ConstructInsert(acc, vnode, r5) ==
    [acc EXCEPT
        !.h = HostInsert(r5.h, acc.parent_element, InsertIndex(acc.node_index),
                         vnode.web_element),
        !.node_level = InsertAt(@, acc.node_index,
                                [vnode EXCEPT !.children = r5.children]),
        !.node_index = @ + 1]

\* The new node once its children are processed.
ConstructCleanup(acc, vnode, new_acc) ==
    IF new_acc.h.panicked THEN [acc EXCEPT !.h = new_acc.h]
    ELSE ConstructInsert(acc, vnode,
             RemoveUnused(new_acc.h, new_acc.node_level, new_acc.node_index))

\* The attributes of the new element are set once its children are
\* built.
ConstructChildrenAttributesLast(acc, node, keys, html_element, ls) ==
    LET new_acc ==
            ProcessAll(WebWriterAcc(ls.h, ChildKeys(acc.keys, keys),
                                    html_element, <<>>, 0),
                       node.children)
    IN  ConstructCleanup(acc,
            VDomNode(VNodeValueOf(node), keys, html_element, node.attributes,
                     ls.listeners, <<>>),
            [new_acc EXCEPT
                !.h = SetAttributes(new_acc.h, html_element, node.attributes)])

\* The attributes, the VDomNode and the children of the new element
\* html_element; ls is [h, listeners] after its listeners are attached.
ConstructChildren(acc, node, keys, html_element, ls) ==
    ConstructCleanup(acc,
        VDomNode(VNodeValueOf(node), keys, html_element, node.attributes,
                 ls.listeners, <<>>),
        ProcessAll(WebWriterAcc(SetAttributes(ls.h, html_element, node.attributes),
                                ChildKeys(acc.keys, keys), html_element, <<>>, 0),
                   node.children))

\* The listeners of the new element c.id; c is [h, id] from the create call.
ConstructListeners(acc, node, keys, c) ==
    IF c.h.panicked THEN [acc EXCEPT !.h = c.h]
    ELSE ConstructChildren(acc, node, keys, c.id,
             SetListeners([h |-> c.h, listeners |-> <<>>], c.id,
                          node.listeners, keys))

\* The unmatched branch of add_node: "Construct as a new element".
ConstructNew(acc, node, keys) ==
    ConstructListeners(acc, node, keys,
        IF node.value.kind = "Tag"
        THEN HostCreateElement(acc.h, node.value.s)
        ELSE HostCreateTextNode(acc.h, node.value.s))

\* The branch of add_node the match scan selects.
AddNodeAt(acc, node, keys, vnode_match_opt_index) ==
    IF vnode_match_opt_index # <<>>
    THEN ModifyExisting(acc, node, keys, vnode_match_opt_index[1])
    ELSE ConstructNew(acc, node, keys)

\* WebWriter's processor, add_node.
AddNode(acc, node) ==
    IF acc.h.panicked THEN acc
    ELSE IF node.key # <<>> /\ KeysFull(acc.keys)
    THEN [acc EXCEPT !.h.panicked = TRUE]
    ELSE AddNodeAt(acc, node, NodeKeys(acc.keys, node),
                   FindMatch(acc.node_level, ScanStart(acc.node_index),
                             NodeKeys(acc.keys, node), VNodeValueOf(node)))

\* DomNodes::process_all over a collection of nodes: left to right.
ProcessAll(acc, nodes) ==
    IF nodes = <<>> THEN acc
    ELSE ProcessAll(AddNode(acc, Head(nodes)), Tail(nodes))

\* ------------------------------------------------------------ applications
\* An application is a state set and a render function; update may move the
\* state anywhere in the set.  The listener addresses (ptr) are those of the
\* rendered value, which handle_listener overwrites in place: a listener at
\* the same position of the same type has the same address in every render.
Apps ==
    {"list", "text", "attrs", "listeners", "deep", "top", "watch", "dups",
     "rows", "pair"}

Letters == <<"a", "b", "c", "d", "e", "f">>

\* Sequences over S of length <= n without repetition.
DistinctSeqs(S, n) ==
    UNION {{q \in [1..k -> S] : \A i, j \in 1..k : q[i] = q[j] => i = j}
           : k \in 0..n}

Click(ptr) == Listener(ptr, "click", "clicked")

\* "list": div((on("click", ..), items.map(|k| text(k).with_key(k))))
ListStates == DistinctSeqs(0..(NumKeys - 1), NumKeys)

RenderList(st) ==
    Node(Tag("div"), <<>>, <<>>, <<Click(1)>>,
         [i \in 1..Len(st) |-> Node(Text(Letters[st[i] + 1]), <<st[i]>>, <<>>, <<>>, <<>>)])

\* "text": div((Option<text>, Option<text>)): up to two text nodes, keyed
\* (key 0) or not, whose content varies.
TextKids == [key : {<<>>, <<0>>}, s : {Letters[i] : i \in 1..NumTexts}]

TextStates ==
    {q \in UNION {[1..k -> TextKids] : k \in 0..2} :
        \A i, j \in 1..Len(q) : (q[i].key # <<>> /\ q[i].key = q[j].key) => i = j}

RenderText(st) ==
    Node(Tag("div"), <<>>, <<>>, <<Click(1)>>,
         [i \in 1..Len(st) |-> Node(Text(st[i].s), st[i].key, <<>>, <<>>, <<>>)])

\* "attrs": a div whose attribute list varies; names are unique in a list.
AttrPairs == {<<n, v>> : n \in {"x", "y", "z"}, v \in {"1", "2"}}

AttrStates ==
    {q \in UNION {[1..k -> AttrPairs] : k \in 0..MaxAttrs} :
        \A i, j \in 1..Len(q) : q[i][1] = q[j][1] => i = j}

RenderAttrs(st) == Node(Tag("div"), <<>>, st, <<Click(1)>>, <<>>)

\* "listeners": div((Option<listener>, Option<listener>)): two listener
\* slots, at addresses 1 and 2; the event type and the closure of a slot vary.
Closures == <<"m1", "m2", "m3", "m4">>

ListenerSet ==
    {Listener(p, e, Closures[f]) : p \in 1..2, e \in {"click", "input"},
                                   f \in 1..NumClosures}

ListenerStates ==
    {q \in UNION {[1..k -> ListenerSet] : k \in 0..2} :
        \A i, j \in 1..Len(q) : i < j => q[i].ptr < q[j].ptr}

RenderListeners(st) == Node(Tag("div"), <<>>, <<>>, st, <<>>)

\* "deep": ul(div(button(..))) under a ul of key 2, with a listener on the
\* ul and on the button; the div may carry key 0 and the button key 5.
DeepStates == [div : {<<>>, <<0>>}, button : {<<>>, <<5>>}]

RenderDeep(st) ==
    Node(Tag("ul"), <<2>>, <<>>, <<Click(1)>>,
         <<Node(Tag("div"), st.div, <<>>, <<>>,
                <<Node(Tag("button"), st.button, <<>>, <<Click(2)>>, <<>>)>>)>>)

\* "top": the root node itself changes its tag between renders.
TopStates == [tag : {"div", "span"}, kid : BOOLEAN]

RenderTop(st) ==
    Node(Tag(st.tag), <<>>, <<>>, <<Click(1)>>,
         IF st.kid THEN <<Node(Text("a"), <<>>, <<>>, <<>>, <<>>)>> ELSE <<>>)

\* "watch": div((on("click", ..), Option<p(on("DOMNodeRemoved", ..))>))
WatchStates == BOOLEAN

RenderWatch(st) ==
    Node(Tag("div"), <<>>, <<>>, <<Click(1)>>,
         IF st
         THEN <<Node(Tag("p"), <<>>, <<>>,
                     <<Listener(2, "DOMNodeRemoved", "clicked")>>, <<>>)>>
         ELSE <<>>)

\* "dups": ul(items.map(|k| li(()).with_key(k))) where items may repeat.
DupStates == {<<>>, <<0>>, <<0, 0>>, <<0, 1>>, <<1, 0>>, <<0, 0, 1>>}

RenderDups(st) ==
    Node(Tag("ul"), <<>>, <<>>, <<Click(1)>>,
         [i \in 1..Len(st) |-> Node(Tag("li"), <<st[i]>>, <<>>, <<>>, <<>>)])

\* "rows": ul(rows.map(|r| li(..).with_key(r.key))): keyed rows whose
\* attributes, listener and children vary with the row's variant.
RowVariants == 1..2

RowStates ==
    {q \in UNION {[1..k -> [key : 0..1, v : RowVariants]] : k \in 0..2} :
        \A i, j \in 1..Len(q) : q[i].key = q[j].key => i = j}

RenderRow(r) ==
    IF r.v = 1
    THEN Node(Tag("li"), <<r.key>>, << <<"x", "1">> >>, <<Click(10 + r.key)>>,
              <<>>)
    ELSE Node(Tag("li"), <<r.key>>, << <<"x", "2">> >>, <<>>,
              <<Node(Text("a"), <<>>, <<>>, <<>>, <<>>)>>)

RenderRows(st) ==
    Node(Tag("ul"), <<>>, << <<"z", "1">> >>, <<Click(1)>>,
         [i \in 1..Len(st) |-> RenderRow(st[i])])

\* "pair": div((p(Option<text>), p(Option<text>))): the same unkeyed text may
\* stand under the first p, under the second, under both or under none.
PairStates == [left : BOOLEAN, right : BOOLEAN]

RenderPair(st) ==
    Node(Tag("div"), <<>>, <<>>, <<Click(1)>>,
         <<Node(Tag("p"), <<>>, <<>>, <<>>,
                IF st.left THEN <<Node(Text("a"), <<>>, <<>>, <<>>, <<>>)>>
                ELSE <<>>),
           Node(Tag("p"), <<>>, <<>>, <<>>,
                IF st.right THEN <<Node(Text("a"), <<>>, <<>>, <<>>, <<>>)>>
                ELSE <<>>)>>)

States(a) ==
    CASE a = "list" -> ListStates
      [] a = "text" -> TextStates
      [] a = "attrs" -> AttrStates
      [] a = "listeners" -> ListenerStates
      [] a = "deep" -> DeepStates
      [] a = "top" -> TopStates
      [] a = "watch" -> WatchStates
      [] a = "dups" -> DupStates
      [] a = "rows" -> RowStates
      [] a = "pair" -> PairStates

\* Renderer::render
Render(a, st) ==
    CASE a = "list" -> RenderList(st)
      [] a = "text" -> RenderText(st)
      [] a = "attrs" -> RenderAttrs(st)
      [] a = "listeners" -> RenderListeners(st)
      [] a = "deep" -> RenderDeep(st)
      [] a = "top" -> RenderTop(st)
      [] a = "watch" -> RenderWatch(st)
      [] a = "dups" -> RenderDups(st)
      [] a = "rows" -> RenderRows(st)
      [] a = "pair" -> RenderPair(st)

Messages == {"clicked"} \cup {Closures[f] : f \in 1..NumClosures}

RECURSIVE ListenersOf(_)
\* Every listener object of a rendered tree.
ListenersOf(node) ==
    Range(node.listeners)
        \cup UNION {ListenersOf(node.children[i]) : i \in 1..Len(node.children)}

\* ------------------------------------------------------------------- state
VARIABLES
    app,        \* which application runs
    state,      \* app_system.3: the application state
    rendered,   \* app_system.0: the rendered logical tree
    vdom_root,  \* app_system.4: the root of the shadow tree
    host,       \* the pool and the document
    pc,         \* "start", "idle", "update", "render", "reconcile", "crashed"
    cycle,      \* the event being dispatched: callback arguments and steps
    before      \* the shadow root and rendered tree as the last pass found them

vars == <<app, state, rendered, vdom_root, host, pc, cycle, before>>

RootElement == 0

NoPass == [vdom |-> <<>>, rendered |-> <<>>]

NoCycle == [n |-> 0, sub |-> <<>>, message |-> <<>>, updated |-> <<>>, trace |-> <<>>]

Init ==
    /\ app \in Apps
    /\ state \in States(app)
    /\ rendered = <<>>
    /\ vdom_root = <<>>
    /\ \E foreign \in {<<>>, <<-1>>} :
         host = [poolLen |-> 0, free |-> <<>>, live |-> {},
                 nodes |-> [n \in {RootElement} \cup Range(foreign) |->
                               IF n = RootElement
                               THEN [NewDomNode("element", "body") EXCEPT !.kids = foreign]
                               ELSE NewDomNode("element", "p")],
                 subs |-> {}, calls |-> <<>>, stale |-> FALSE,
                 panicked |-> FALSE, fault |-> <<>>,
                 reentered |-> FALSE]
    /\ pc = "start"
    /\ cycle = NoCycle
    /\ before = NoPass

\* The shadow root with the level a top-level pass left in acc.
PassResult(root, acc) ==
    [h |-> acc.h, root |-> [root EXCEPT !.children = acc.node_level]]

\* The top-level pass of run and of handle_listener: node_index = 0, keys =
\* Keys::new(), the root's children as node_level, rendered.process_all(..).
\* Nothing follows process_all.
TopLevelPass(h, root, tree) ==
    PassResult(root,
               ProcessAll(WebWriterAcc(h, KeysNew, root.web_element,
                                       root.children, 0),
                          <<tree>>))

\* The shadow root run builds around the root element.
RootVNode(web_element) ==
    VDomNode(Tag("N/A - root"), KeysNew, web_element, <<>>, <<>>, <<>>)

\* element_from_selector, remove_all_children and the first pass; a is the
\* allocation [h, id] of the root element.
FirstPass(a, tree) ==
    TopLevelPass(HostRemoveAllChildren(a.h, a.id), RootVNode(a.id), tree)

\* The state a top-level pass leaves; r is its result [h, root].  unwrap()
\* of a failed pass panics.
Drawn(r) ==
    /\ vdom_root' = r.root
    /\ host' = r.h
    /\ pc' = IF r.h.panicked THEN "crashed"
             ELSE IF r.h.reentered THEN "reentered"
             ELSE "idle"

FaultKinds == {"create", "insert", "move"}

\* The failure comes back from process_all as Err(()).
PassValueErr(h) ==
    IF h.panicked THEN "Err" ELSE "Ok"

\* What process_all hands to the driver: add_node returns Ok(()) and nothing
\* else; a failed host call panics where it is made and nothing is returned.
PassValue(h) ==
    IF h.panicked THEN "panic" ELSE "Ok"

\* A pass the browser failed: the panic leaves handle_listener.
Failed(r) ==
    /\ FaultHit(r.h)
    /\ Drawn(r)
    /\ cycle' = [cycle EXCEPT !.trace = Append(Append(@, "reconcile"),
                                               PassValue(r.h))]

\* run: render, find the root element, clear it, draw the first tree.
Run ==
    /\ pc = "start"
    /\ rendered' = Render(app, state)
    /\ Drawn(FirstPass(PoolAlloc(host), Render(app, state)))
    /\ before' = [vdom |-> RootVNode(PoolAlloc(host).id), rendered |-> <<>>]
    /\ UNCHANGED <<app, state, cycle>>

RECURSIVE Attached(_, _)
\* The element is in the document: under the mount element.
Attached(h, id) ==
    \/ id = RootElement
    \/ \E p \in DOMAIN h.nodes :
          id \in Range(h.nodes[p].kids) /\ Attached(h, p)

\* listener_ref.handle_event(event): the listener object now at the address
\* the callback captured; if no listener lives there the pointer dangles and
\* any message may come out.
HandlerMessages(tree, ptr) ==
    LET at == {l \in ListenersOf(tree) : l.ptr = ptr}
    IN  IF at # {} THEN {l.f : l \in at} ELSE Messages

\* The dispatch goes from the handler straight to render: update is skipped.
HandleEventSkipUpdate ==
    /\ pc = "idle"
    /\ \E sub \in host.subs :
         /\ Attached(host, sub.node)
         /\ \E m \in HandlerMessages(rendered, sub.ptr) :
              cycle' = [n |-> 1, sub |-> sub, message |-> m, updated |-> <<>>,
                        trace |-> <<"handle_event">>]
    /\ host' = [host EXCEPT !.calls = <<>>]
    /\ before' = NoPass
    /\ pc' = "render"
    /\ UNCHANGED <<app, state, rendered, vdom_root>>

\* handle_listener up to `let message = listener_ref.handle_event(event)`.
HandleEvent ==
    /\ pc = "idle"
    /\ \E sub \in host.subs :
         /\ Attached(host, sub.node)
         /\ \E m \in HandlerMessages(rendered, sub.ptr) :
              cycle' = [n |-> 1, sub |-> sub, message |-> m, updated |-> <<>>,
                        trace |-> <<"handle_event">>]
    /\ host' = [host EXCEPT !.calls = <<>>]
    /\ before' = NoPass
    /\ pc' = "update"
    /\ UNCHANGED <<app, state, rendered, vdom_root>>

\* updater.update(state, message, keys.into_iter())
Update ==
    /\ pc = "update"
    /\ state' \in States(app)
    /\ cycle' = [cycle EXCEPT
                    !.updated = <<cycle.message, KeyIterSeq(cycle.sub.keys)>>,
                    !.trace = Append(@, "update")]
    /\ pc' = "render"
    /\ UNCHANGED <<app, rendered, vdom_root, host, before>>

\* *rendered = renderer.render(state)
RenderStep ==
    /\ pc = "render"
    /\ rendered' = Render(app, state)
    /\ before' = [before EXCEPT !.rendered = rendered]
    /\ cycle' = [cycle EXCEPT !.trace = Append(@, "render")]
    /\ pc' = "reconcile"
    /\ UNCHANGED <<app, state, vdom_root, host>>

\* The pass of handle_listener; a callback the pass ran has entered
\* handle_listener a second time.
Redrawn(r) ==
    /\ Drawn(r)
    /\ cycle' = [cycle EXCEPT !.trace =
                    Append(@, "reconcile")
                        \o (IF r.h.reentered THEN <<"handle_event">> ELSE <<>>)]

\* "Write new DomNode to root element"
Reconcile ==
    /\ pc = "reconcile"
    /\ Redrawn(TopLevelPass(host, vdom_root, rendered))
    /\ before' = [before EXCEPT !.vdom = vdom_root]
    /\ UNCHANGED <<app, state, rendered>>

\* The same pass in a browser that fails one of its calls.
ReconcileHostFailure ==
    /\ pc = "reconcile"
    /\ \E kind \in FaultKinds, n \in 0..MaxFaultAt :
         Failed(TopLevelPass([host EXCEPT !.fault = <<kind, n>>],
                             vdom_root, rendered))
    /\ before' = [before EXCEPT !.vdom = vdom_root]
    /\ UNCHANGED <<app, state, rendered>>

Next ==
    Run \/ HandleEvent \/ Update \/ RenderStep \/ Reconcile
        \/ ReconcileHostFailure

Spec == Init /\ [][Next]_vars

\* ---------------------------------------------------- reading a pass
\* A pass of handle_listener has completed: before.vdom is the shadow root
\* and before.rendered the rendered tree it started from, rendered the tree
\* it reconciled, host.calls the host calls it issued.
PassDone == pc = "idle" /\ cycle.n = 1

CallsOf(ops) == SelectSeq(host.calls, LAMBDA c : c.op \in ops)

Structural ==
    {"create_element", "create_text", "insert_child", "move_child", "remove_node"}

\* The keys of a list of keyed logical nodes.
KeySeq(nodes) == [i \in 1..Len(nodes) |-> nodes[i].key[1]]

\* q is p with some elements removed (both without repetition).
IsSubSeq(q, p) ==
    /\ Range(q) \subseteq Range(p)
    /\ \A i, j \in 1..Len(q) :
          i < j => (CHOOSE a \in 1..Len(p) : p[a] = q[i])
                       < (CHOOSE b \in 1..Len(p) : p[b] = q[j])

\* The shadow children of the root node (the div) before and after a pass.
OldKids == before.vdom.children[1].children

NewKids == vdom_root.children[1].children

OldKeys == KeySeq(before.rendered.children)

NewKeys == KeySeq(rendered.children)

\* The positions of OldKeys whose key the new list drops.
Removed == {i \in 1..Len(OldKeys) : OldKeys[i] \notin Range(NewKeys)}

\* The kept children that have a removed child before them in the old list.
KeptAfterRemoved ==
    {j \in 1..Len(OldKeys) : j \notin Removed /\ \E i \in Removed : i < j}

ListPass == PassDone /\ app = "list"

\* ------------------------------------------------------------------ claims

\* C1: once a pass reconciling tree T has completed, a further pass
\* reconciling a tree identical to T issues no host call and leaves the
\* shadow tree as it was.
C1_NoOpReconcile ==
    (PassDone /\ before.rendered = rendered)
        => (host.calls = <<>> /\ vdom_root = before.vdom)

C1_Witness ==
    /\ PassDone /\ before.rendered = rendered /\ host.calls = <<>>
    /\ app = "list" /\ Len(rendered.children) = NumKeys

\* C2 as stated: when the new keyed children are the old ones with some
\* removed, in the same relative order, the pass issues exactly one
\* remove_node per removed child and no other structural call.
C2_OnlyRemoves ==
    (ListPass /\ IsSubSeq(NewKeys, OldKeys))
        => /\ Len(CallsOf(Structural)) = Cardinality(Removed)
           /\ \A i \in Removed :
                 \E c \in 1..Len(host.calls) :
                    host.calls[c] = [op |-> "remove_node",
                                     node |-> OldKids[i].web_element]

\* C2 amended: exactly one remove_node per removed child, no insert_child
\* and no create call, and exactly one move_child for each kept child that
\* has a removed child before it.
C2_RemovesAndMoves ==
    (ListPass /\ IsSubSeq(NewKeys, OldKeys))
        => /\ Len(CallsOf({"remove_node"})) = Cardinality(Removed)
           /\ \A i \in Removed :
                 \E c \in 1..Len(host.calls) :
                    host.calls[c] = [op |-> "remove_node",
                                     node |-> OldKids[i].web_element]
           /\ CallsOf({"insert_child", "create_element", "create_text"}) = <<>>
           /\ Len(CallsOf({"move_child"})) = Cardinality(KeptAfterRemoved)
           /\ Len(NewKids) = Len(NewKeys)

C2_Witness ==
    /\ ListPass /\ OldKeys = <<0, 1, 2>> /\ NewKeys = <<0, 2>>
    /\ Len(CallsOf({"remove_node"})) = 1 /\ Len(CallsOf({"move_child"})) = 1

\* C3: when the new keyed children are a permutation of the old ones the
\* pass issues only move_child calls, every child keeps its host node, the
\* shadow children end in the new logical order, and swapping the two
\* children of a parent (or two adjacent children) takes one move_child.
C3_PermutationMoves ==
    (ListPass /\ Range(NewKeys) = Range(OldKeys))
        => /\ \A c \in 1..Len(host.calls) : host.calls[c].op = "move_child"
           /\ Len(NewKids) = Len(NewKeys)
           /\ \A i \in 1..Len(NewKeys) :
                 /\ NewKids[i].keys = KeysPush(KeysNew, NewKeys[i])
                 /\ NewKids[i].value = rendered.children[i].value
                 /\ \E j \in 1..Len(OldKeys) :
                       /\ OldKeys[j] = NewKeys[i]
                       /\ OldKids[j].web_element = NewKids[i].web_element
           /\ \A i \in 1..(Len(OldKeys) - 1) :
                 NewKeys = [OldKeys EXCEPT ![i] = OldKeys[i + 1],
                                           ![i + 1] = OldKeys[i]]
                     => Len(host.calls) = 1

C3_Witness ==
    /\ ListPass /\ OldKeys = <<0, 1>> /\ NewKeys = <<1, 0>>
    /\ host.calls = <<[op |-> "move_child",
                       parent |-> vdom_root.children[1].web_element,
                       from |-> 1, to |-> 0]>>

\* C4: reconciling an empty shadow child list against n keyed text children
\* issues, for i = 0..n-1 in turn, create_text of child i and then
\* insert_child of the created node at index i, and nothing else.
C4_CreateInsertInOrder ==
    (ListPass /\ OldKids = <<>>)
        => /\ Len(NewKids) = Len(NewKeys)
           /\ host.calls =
                 [c \in 1..(2 * Len(NewKeys)) |->
                     LET i == (c + 1) \div 2
                     IN  IF c % 2 = 1
                         THEN [op |-> "create_text",
                               text |-> rendered.children[i].value.s,
                               node |-> NewKids[i].web_element]
                         ELSE [op |-> "insert_child",
                               parent |-> vdom_root.children[1].web_element,
                               index |-> i - 1,
                               child |-> NewKids[i].web_element]]

C4_Witness ==
    /\ ListPass /\ OldKids = <<>> /\ Len(NewKeys) = NumKeys
    /\ Len(host.calls) = 2 * NumKeys
    /\ host.calls[2 * NumKeys].index = NumKeys - 1

\* The shadow attributes a pass found on the root node, and the candidate's.
OldAttrs == Range(before.vdom.children[1].attributes)

NewAttrs == Range(rendered.attributes)

AttrsPass == PassDone /\ app = "attrs"

AgreeOnCommonNames ==
    \A a \in OldAttrs, b \in NewAttrs : a[1] = b[1] => a = b

\* C5: for a matched node whose shadow attributes A and candidate attributes
\* B carry equal values under their common names, the pass issues one
\* remove_attribute per attribute of A not in B, one set_attribute per
\* attribute of B not in A, and no other call.
C5_AttributeDiff ==
    (AttrsPass /\ AgreeOnCommonNames)
        => LET el == vdom_root.children[1].web_element
               removes == {[op |-> "remove_attribute", node |-> el,
                            name |-> a[1]] : a \in OldAttrs \ NewAttrs}
               sets == {[op |-> "set_attribute", node |-> el, name |-> b[1],
                         value |-> b[2]] : b \in NewAttrs \ OldAttrs}
           IN  /\ Range(host.calls) = removes \cup sets
               /\ Len(host.calls) = Cardinality(removes) + Cardinality(sets)
               /\ Range(vdom_root.children[1].attributes) = NewAttrs

C5_Witness ==
    /\ AttrsPass
    /\ OldAttrs = {<<"x", "1">>, <<"y", "2">>}
    /\ NewAttrs = {<<"y", "2">>, <<"z", "1">>}
    /\ Len(host.calls) = 2

RECURSIVE SubPaths(_, _, _)
\* The subscriptions of a shadow subtree, each with the keys of the keyed
\* logical nodes from the root down to the subscription's node.
SubPaths(vnode, node, path) ==
    LET p == IF node.key # <<>> THEN Append(path, node.key[1]) ELSE path
    IN  {[cb |-> vnode.listeners[k].element, node |-> vnode.web_element,
          path |-> p] : k \in 1..Len(vnode.listeners)}
        \cup UNION {SubPaths(vnode.children[i], node.children[i], p)
                    : i \in 1..Len(node.children)}

\* The subscriptions of the shadow tree that the last pass reconciled with
\* the rendered tree.
ExpectedPaths == SubPaths(vdom_root.children[1], rendered, <<>>)

\* C6: every subscription held in the shadow tree records the keys of the
\* keyed nodes from the root to its node, in that order, and a dispatch of
\* the subscription calls update with that path.
C6_KeyPathRecorded ==
    /\ pc = "idle" =>
          /\ Cardinality(ExpectedPaths) = Cardinality(ListenersOf(rendered))
          /\ \A e \in ExpectedPaths :
                /\ \E s \in host.subs : s.cb = e.cb
                /\ \A s \in host.subs :
                      s.cb = e.cb => /\ s.node = e.node
                                     /\ KeyIterSeq(s.keys) = e.path
    /\ pc = "render" =>
          \A e \in ExpectedPaths :
             e.cb = cycle.sub.cb => cycle.updated[2] = e.path

C6_Witness ==
    /\ app = "deep" /\ pc = "render" /\ cycle.updated[2] = <<2, 5>>
    /\ \E e \in ExpectedPaths : e.cb = cycle.sub.cb /\ e.path = <<2, 5>>

\* The document and the shadow tree: what a host mutation changes.
Document == <<host.nodes, host.subs, host.live, host.free, host.poolLen, vdom_root>>

\* No step before the reconciliation pass changes the document.
QuietUntilReconcile ==
    (pc \in {"idle", "update", "render"}) => (Document' = Document)

\* The steps of a dispatch follow each other in the order of handle_listener.
StepsInOrder ==
    /\ (pc = "idle") => (pc' = "update")
    /\ (pc = "update") => (pc' = "render")
    /\ (pc = "render") => (pc' = "reconcile")
    /\ (pc = "reconcile") => (pc' \in {"idle", "crashed", "reentered"})

\* C7: a dispatch runs the handler, update with the handler's message and
\* the subscription's key path, render on the updated state and one
\* reconciliation pass, in this order and once each; nothing touches the
\* host before update and render have returned.
C7_DispatchOrder ==
    /\ [](/\ PassDone =>
               /\ cycle.trace = <<"handle_event", "update", "render", "reconcile">>
               /\ cycle.updated = <<cycle.message, KeyIterSeq(cycle.sub.keys)>>
               /\ rendered = Render(app, state)
          /\ pc \in {"update", "render", "reconcile"} => host.calls = <<>>
          /\ pc = "update" =>
               cycle.message \in HandlerMessages(rendered, cycle.sub.ptr)
          /\ pc = "reconcile" => rendered = Render(app, state))
    /\ [][QuietUntilReconcile]_vars
    /\ [][StepsInOrder]_vars

C7_Witness ==
    /\ PassDone /\ host.calls # <<>>
    /\ cycle.trace = <<"handle_event", "update", "render", "reconcile">>
    /\ cycle.updated = <<"clicked", <<2, 5>>>>

\* The listener entries a pass found on the root node, and the candidate's
\* listeners.
OldEntries == Range(before.vdom.children[1].listeners)

NewEntries == Range(vdom_root.children[1].listeners)

ListenersPass == PassDone /\ app = "listeners"

ListenerCalls == CallsOf({"add_listener", "remove_listener"})

RemoveListenerCall(e) ==
    [op |-> "remove_listener", node |-> vdom_root.children[1].web_element,
     ev |-> e.ev, listener |-> e.element]

IsAddListenerCall(c, l) ==
    c.op = "add_listener" /\ c.node = vdom_root.children[1].web_element
        /\ c.ev = l.ev /\ c.ptr = l.ptr

\* C8 as stated: when the handler of a listener is replaced by a distinct
\* handler with the same event type, the old subscription is removed, a new
\* one is added and the old one is not held any more.
C8_ReplacedHandlerResubscribed ==
    ListenersPass =>
        \A e \in OldEntries :
            \A o \in Range(before.rendered.listeners), l \in Range(rendered.listeners) :
                (o.ptr = e.ptr /\ o.ev = e.ev /\ l.ptr = o.ptr /\ l.ev = o.ev
                     /\ l.f # o.f)
                    => /\ RemoveListenerCall(e) \in Range(host.calls)
                       /\ \E c \in Range(host.calls) : IsAddListenerCall(c, l)
                       /\ e \notin NewEntries

\* C8 amended: a subscription is kept, with no listener call, exactly when
\* the candidate has a listener at the same address with the same event
\* type, whatever handler now lives at that address; otherwise it is
\* removed with one remove_listener.  A candidate listener gets one
\* add_listener exactly when no subscription of its address and event type
\* was there.
C8_ListenerDiffByAddress ==
    ListenersPass =>
        LET new == Range(rendered.listeners)
            kept == {e \in OldEntries :
                        \E l \in new : l.ptr = e.ptr /\ l.ev = e.ev}
            added == {l \in new :
                         ~\E e \in OldEntries : l.ptr = e.ptr /\ l.ev = e.ev}
        IN  /\ kept \subseteq NewEntries
            /\ \A e \in OldEntries \ kept :
                  /\ e \notin NewEntries
                  /\ RemoveListenerCall(e) \in Range(host.calls)
            /\ \A l \in added : \E c \in Range(host.calls) : IsAddListenerCall(c, l)
            /\ \A c \in Range(ListenerCalls) :
                  \/ \E e \in OldEntries \ kept : c = RemoveListenerCall(e)
                  \/ \E l \in added : IsAddListenerCall(c, l)
            /\ Len(ListenerCalls) =
                  Cardinality(OldEntries \ kept) + Cardinality(added)
            /\ Cardinality(NewEntries) = Cardinality(new)

C8_Witness ==
    /\ ListenersPass /\ host.calls = <<>>
    /\ before.rendered.listeners = <<Listener(1, "click", "m1")>>
    /\ rendered.listeners = <<Listener(1, "click", "m2")>>
    /\ NewEntries = OldEntries

TextPass == PassDone /\ app = "text"

OldElements == {OldKids[j].web_element : j \in 1..Len(OldKids)}

\* C9 as stated: a candidate text node that has the key path of the shadow
\* text node at its position keeps that node's host node whatever the two
\* contents are, and no text node is created or removed.
C9_TextUpdatedInPlace ==
    (/\ TextPass
     /\ Len(OldKids) = Len(rendered.children)
     /\ \A i \in 1..Len(OldKids) :
           OldKids[i].keys = NodeKeys(KeysNew, rendered.children[i]))
        => /\ CallsOf({"create_text", "remove_node"}) = <<>>
           /\ \A i \in 1..Len(OldKids) :
                 /\ i <= Len(NewKids)
                 /\ NewKids[i].web_element = OldKids[i].web_element
                 /\ host.nodes[NewKids[i].web_element].name
                        = rendered.children[i].value.s

\* C9 amended: the text content is part of the match.  The host node of a
\* shadow text node is kept only for a candidate with the same key path and
\* the same content; any other candidate gets a new host text node, created
\* and inserted at its position, and the shadow text nodes that no candidate
\* kept are removed.  The content of an existing host text node never
\* changes.
C9_TextContentInMatch ==
    TextPass =>
        LET keptAt == {i \in 1..Len(NewKids) : NewKids[i].web_element \in OldElements}
            madeAt == (1..Len(NewKids)) \ keptAt
        IN  /\ Len(NewKids) = Len(rendered.children)
            /\ \A i \in 1..Len(NewKids) :
                  /\ NewKids[i].value = rendered.children[i].value
                  /\ host.nodes[NewKids[i].web_element].name
                         = rendered.children[i].value.s
            /\ \A i \in keptAt :
                  \E j \in 1..Len(OldKids) :
                     /\ OldKids[j].web_element = NewKids[i].web_element
                     /\ OldKids[j].value = rendered.children[i].value
                     /\ OldKids[j].keys = NodeKeys(KeysNew, rendered.children[i])
            /\ \A i \in madeAt :
                  /\ [op |-> "create_text", text |-> rendered.children[i].value.s,
                      node |-> NewKids[i].web_element] \in Range(host.calls)
                  /\ [op |-> "insert_child",
                      parent |-> vdom_root.children[1].web_element,
                      index |-> i - 1,
                      child |-> NewKids[i].web_element] \in Range(host.calls)
            /\ Len(CallsOf({"create_text"})) = Cardinality(madeAt)
            /\ Len(CallsOf({"remove_node"})) = Len(OldKids) - Cardinality(keptAt)
            /\ \A j \in 1..Len(OldKids) :
                  OldKids[j].web_element \notin
                      {NewKids[i].web_element : i \in 1..Len(NewKids)}
                    => [op |-> "remove_node", node |-> OldKids[j].web_element]
                           \in Range(host.calls)

C9_Witness ==
    /\ TextPass
    /\ Len(OldKids) = 1 /\ Len(NewKids) = 1
    /\ OldKids[1].keys = NewKids[1].keys
    /\ OldKids[1].value = Text("a") /\ NewKids[1].value = Text("b")
    /\ host.calls = <<[op |-> "create_text", text |-> "b",
                       node |-> NewKids[1].web_element],
                      [op |-> "insert_child",
                       parent |-> vdom_root.children[1].web_element,
                       index |-> 0, child |-> NewKids[1].web_element],
                      [op |-> "remove_node", node |-> OldKids[1].web_element]>>

RECURSIVE LevelClean(_, _)
\* A level of the shadow tree holds as many children as the level of the
\* logical tree it was reconciled with, and so does every level below.
LevelClean(node_level, nodes) ==
    /\ Len(node_level) = Len(nodes)
    /\ \A i \in 1..Len(nodes) :
          LevelClean(node_level[i].children, nodes[i].children)

\* C10: when a pass is finished every level of the shadow tree, the top
\* level under the mount root included, holds exactly as many children as
\* there were candidates, and the unmatched shadow children are gone from
\* the document.
C10_EveryLevelCleaned ==
    pc = "idle" =>
        /\ LevelClean(vdom_root.children, <<rendered>>)
        /\ Len(host.nodes[vdom_root.web_element].kids) = 1

\* The program is up: run has drawn the first tree and no panic ended it.
Running == pc \notin {"start", "crashed", "reentered"}

RECURSIVE LevelHandles(_)
\* The pool indices a level of the shadow tree owns, in tree order: of each
\* node its web_element, the elements of its listener entries and the
\* indices of its children.
LevelHandles(level) ==
    IF level = <<>> THEN <<>>
    ELSE <<Head(level).web_element>>
             \o [k \in 1..Len(Head(level).listeners) |->
                    Head(level).listeners[k].element]
             \o LevelHandles(Head(level).children)
             \o LevelHandles(Tail(level))

ShadowHandles == LevelHandles(<<vdom_root>>)

NoRepetition(q) == \A i, j \in 1..Len(q) : q[i] = q[j] => i = j

RECURSIVE OneToOne(_, _)
\* Below the top level every candidate of a level has exactly one shadow
\* node, at its own position, with its value, and no shadow node is left
\* over.
OneToOne(node_level, nodes) ==
    /\ Len(node_level) = Len(nodes)
    /\ \A i \in 1..Len(nodes) :
          /\ node_level[i].value = nodes[i].value
          /\ OneToOne(node_level[i].children, nodes[i].children)

\* C11: no pool index occurs twice in the shadow tree, and when a pass is
\* finished the candidates of every level below the root node and the shadow
\* nodes of that level correspond one to one; a child that stays in a keyed
\* list keeps its host node whatever is reordered, inserted or deleted.
C11_HandlesUnique ==
    /\ Running =>
          /\ NoRepetition(ShadowHandles)
          /\ Range(ShadowHandles) = host.live
    /\ pc = "idle" =>
          /\ vdom_root.children[1].value = rendered.value
          /\ OneToOne(vdom_root.children[1].children, rendered.children)
    /\ ListPass =>
          \A j \in 1..Len(OldKeys) :
             OldKeys[j] \in Range(NewKeys) =>
                \E i \in 1..Len(NewKids) :
                   /\ NewKeys[i] = OldKeys[j]
                   /\ NewKids[i].web_element = OldKids[j].web_element

C11_Witness ==
    /\ ListPass /\ OldKeys = <<0, 1, 2>> /\ NewKeys = <<2, 0>>
    /\ NewKids[1].web_element = OldKids[3].web_element
    /\ NewKids[2].web_element = OldKids[1].web_element
    /\ Len(ShadowHandles) = 5

RECURSIVE InSync(_)
\* The element children of the shadow node's host element are the host
\* elements of its shadow children, in the same order, and so on below.
InSync(vnode) ==
    /\ vnode.web_element \in DOMAIN host.nodes
    /\ host.nodes[vnode.web_element].kids =
          [i \in 1..Len(vnode.children) |-> vnode.children[i].web_element]
    /\ \A i \in 1..Len(vnode.children) : InSync(vnode.children[i])

\* C12: at the end of the mount and of every pass the children of every
\* shadow node, the mount root included, are the children of its host
\* element in the document, in the same order.
C12_ShadowMatchesDocument == pc = "idle" => InSync(vdom_root)

C12_Witness ==
    /\ ListPass /\ InSync(vdom_root)
    /\ Len(NewKids) = 2
    /\ CallsOf({"move_child"}) # <<>>
    /\ CallsOf({"remove_node"}) # <<>>
    /\ CallsOf({"insert_child"}) # <<>>

RECURSIVE LevelSubs(_)
\* The subscriptions the listener entries of a level of the shadow tree
\* stand for: on the node's host element, for the entry's event type, with
\* the entry's callback and listener address and the node's keys.
LevelSubs(level) ==
    IF level = <<>> THEN {}
    ELSE {[node |-> Head(level).web_element,
           ev |-> Head(level).listeners[k].ev,
           cb |-> Head(level).listeners[k].element,
           ptr |-> Head(level).listeners[k].ptr,
           keys |-> Head(level).keys] : k \in 1..Len(Head(level).listeners)}
         \cup LevelSubs(Head(level).children)
         \cup LevelSubs(Tail(level))

RECURSIVE LevelNodes(_)
\* The host elements of the nodes of a level of the shadow tree.
LevelNodes(level) ==
    IF level = <<>> THEN {}
    ELSE {Head(level).web_element} \cup LevelNodes(Head(level).children)
             \cup LevelNodes(Tail(level))

RECURSIVE LevelCallbacks(_)
\* The callbacks of the listener entries of a level of the shadow tree.
LevelCallbacks(level) ==
    IF level = <<>> THEN {}
    ELSE {Head(level).listeners[k].element : k \in 1..Len(Head(level).listeners)}
             \cup LevelCallbacks(Head(level).children)
             \cup LevelCallbacks(Tail(level))

RECURSIVE LevelEdges(_, _)
\* The pairs (host element of a shadow node, host element of a shadow child
\* of it) below the node of host element parent.
LevelEdges(parent, level) ==
    IF level = <<>> THEN {}
    ELSE {<<parent, Head(level).web_element>>}
             \cup LevelEdges(Head(level).web_element, Head(level).children)
             \cup LevelEdges(parent, Tail(level))

\* The parent-child pairs of the shadow tree a pass found.
OldEdges == LevelEdges(before.vdom.web_element, before.vdom.children)

\* The handles a pass found in the shadow tree and did not leave in it.
DroppedNodes == LevelNodes(<<before.vdom>>) \ Range(ShadowHandles)

DroppedCallbacks == LevelCallbacks(<<before.vdom>>) \ Range(ShadowHandles)

\* The handle a releasing host call names, in call order.
ReleaseCalls ==
    [c \in 1..Len(CallsOf({"remove_node", "remove_listener"})) |->
        LET call == CallsOf({"remove_node", "remove_listener"})[c]
        IN  IF call.op = "remove_node" THEN call.node ELSE call.listener]

\* C14 as stated: every handle the pass drops from the shadow tree is
\* released by a host call of that pass, a node by remove_node and a
\* subscription by remove_listener.
C14_ReleasedByHostCall ==
    PassDone =>
        /\ \A n \in DroppedNodes :
              [op |-> "remove_node", node |-> n] \in Range(host.calls)
        /\ \A cb \in DroppedCallbacks :
              \E c \in Range(CallsOf({"remove_listener"})) : c.listener = cb

\* C14 amended: a handle is released by the drop of its WebElement, once,
\* in the pass that drops its shadow entry: every pool index is either
\* owned by one entry of the shadow tree or free, never both and never free
\* twice; no host call dereferences an index that is not owned; and the
\* remove_node and remove_listener calls of a pass name handles the pass
\* found in the shadow tree, each at most once.  remove_listener is issued
\* only for a listener dropped from a matched node and remove_node only for
\* the root of a removed subtree.
C14_ReleasedOnce ==
    /\ Running =>
          /\ NoRepetition(host.free)
          /\ Range(host.free) \cap host.live = {}
          /\ Range(host.free) \cup host.live = 0..(host.poolLen - 1)
          /\ host.live = Range(ShadowHandles)
          /\ ~host.stale
    /\ PassDone =>
          /\ NoRepetition(ReleaseCalls)
          /\ Range(ReleaseCalls) \subseteq Range(LevelHandles(<<before.vdom>>))
          /\ (DroppedNodes \cup DroppedCallbacks) \subseteq Range(host.free)
          /\ \A c \in Range(CallsOf({"remove_node"})) :
                \E e \in OldEdges :
                   e[2] = c.node /\ e[1] \in LevelNodes(<<vdom_root>>)
          /\ \A e \in OldEdges :
                (e[2] \in DroppedNodes /\ e[1] \notin DroppedNodes)
                    => [op |-> "remove_node", node |-> e[2]] \in Range(host.calls)
          /\ \A c \in Range(CallsOf({"remove_listener"})) :
                \E sub \in LevelSubs(<<before.vdom>>) :
                   /\ sub.cb = c.listener /\ sub.node = c.node
                   /\ sub.node \in LevelNodes(<<vdom_root>>)

C14_Witness ==
    /\ PassDone /\ app = "deep"
    /\ Cardinality(DroppedNodes) = 2
    /\ Cardinality(DroppedCallbacks) = 1
    /\ Len(CallsOf({"remove_node"})) = 1
    /\ CallsOf({"remove_listener"}) = <<>>
    /\ (DroppedNodes \cup DroppedCallbacks) \subseteq Range(host.free)

\* -------------------------------------------------- add_node at any depth
\* The reconciler at the children of a shadow node that lies under any
\* number of keyed ancestors: vdom_root is that shadow node, its keys the key
\* path the accumulator of its children carries, rendered the logical node
\* add_node is called with and before.vdom the shadow node as the call found
\* it.
KeyPaths ==
    {[size |-> n, stack |-> [i \in 0..(KEY_STACK_LEN - 1) |->
                                IF i < n THEN k ELSE 0]]
        : n \in 0..KEY_STACK_LEN, k \in 0..(NumKeys - 1)}

ParentElement == 1

KeysInit ==
    /\ app = "keys"
    /\ state = <<>>
    /\ rendered = <<>>
    /\ \E keys \in KeyPaths :
          vdom_root = VDomNode(Tag("div"), keys, ParentElement, <<>>, <<>>, <<>>)
    /\ host = [poolLen |-> 2, free |-> <<>>, live |-> {RootElement, ParentElement},
               nodes |-> [n \in {RootElement, ParentElement} |->
                             IF n = RootElement
                             THEN [NewDomNode("element", "body")
                                      EXCEPT !.kids = <<ParentElement>>]
                             ELSE NewDomNode("element", "div")],
               subs |-> {}, calls |-> <<>>, stale |-> FALSE,
               panicked |-> FALSE, fault |-> <<>>,
                 reentered |-> FALSE]
    /\ pc = "level"
    /\ cycle = NoCycle
    /\ before = NoPass

\* The state add_node leaves in its accumulator acc.
Added(acc) ==
    /\ vdom_root' = [vdom_root EXCEPT !.children = acc.node_level]
    /\ host' = acc.h
    /\ pc' = IF acc.h.panicked THEN "crashed" ELSE "level"

\* add_node for the first child of the shadow node, keyed or not.
KeysAddNode ==
    /\ pc = "level"
    /\ vdom_root.children = <<>>
    /\ \E key \in {<<>>} \cup {<<k>> : k \in 0..(NumKeys - 1)} :
         /\ rendered' = <<Node(Tag("div"), key, <<>>, <<Click(1)>>, <<>>)>>
         /\ Added(AddNode(WebWriterAcc(host, vdom_root.keys,
                                       vdom_root.web_element,
                                       vdom_root.children, 0),
                          Node(Tag("div"), key, <<>>, <<Click(1)>>, <<>>)))
    /\ before' = [before EXCEPT !.vdom = vdom_root]
    /\ UNCHANGED <<app, state, cycle>>

KeysNext == KeysAddNode

SpecKeys == KeysInit /\ [][KeysNext]_vars

\* ----------------------------------------------------------------- C16
\* The key paths of the state: of the shadow node, of its children and of
\* the subscriptions, whose keys are what update receives.
KeyPathsHeld ==
    {vdom_root.keys}
        \cup {vdom_root.children[i].keys : i \in 1..Len(vdom_root.children)}
        \cup {s.keys : s \in host.subs}

\* add_node was called with a keyed node on a full key path.
PushedOnFull ==
    /\ rendered # <<>>
    /\ rendered[1].key # <<>>
    /\ before.vdom.keys.size = KEY_STACK_LEN

\* C16: the push of a key onto a path of 32 keys is fatal: no key path
\* comes out of it, the reconciler issues no host call and records nothing;
\* every other push yields the path with the key on top; so every key path
\* held holds between 0 and 32 keys.
C16_PushPastCapacityFatal ==
    /\ \A ks \in KeyPathsHeld :
          ks.size \in 0..KEY_STACK_LEN /\ Len(KeyIterSeq(ks)) = ks.size
    /\ pc = "crashed" <=> PushedOnFull
    /\ pc = "crashed" =>
          /\ host.calls = <<>>
          /\ host.subs = {}
          /\ vdom_root = before.vdom
    /\ (pc = "level" /\ rendered # <<>>) =>
          /\ Len(vdom_root.children) = 1
          /\ KeyIterSeq(vdom_root.children[1].keys)
                = KeyIterSeq(before.vdom.keys) \o rendered[1].key
          /\ \E s \in host.subs : s.keys = vdom_root.children[1].keys

C16_Witness ==
    /\ pc = "crashed"
    /\ PushedOnFull

\* -------------------------------------------------------- building nodes
\* A node value as the builder methods nest it: w names the type of the
\* outermost layer, Tag or one of the wrappers WithKey, WithAttributes and
\* WithListeners around the node it holds.
TagNode(tagname, children) ==
    [w |-> "Tag", tagname |-> tagname, children |-> children,
     attributes |-> <<>>, listeners |-> <<>>]

RECURSIVE KeyOf(_)
\* DomNode::key: None is <<>>, Some(k) is <<k>>.
KeyOf(n) ==
    CASE n.w = "WithKey" -> <<n.key>>
      [] n.w \in {"WithAttributes", "WithListeners"} -> KeyOf(n.node)
      [] n.w = "Tag" -> <<>>

RECURSIVE AttributesOf(_)
\* DomNode::attributes: get_attribute(0), get_attribute(1), ..
AttributesOf(n) ==
    CASE n.w = "WithAttributes" -> n.attributes \o AttributesOf(n.node)
      [] n.w \in {"WithKey", "WithListeners"} -> AttributesOf(n.node)
      [] n.w = "Tag" -> n.attributes

RECURSIVE ListenersOfNode(_)
\* DomNode::listeners
ListenersOfNode(n) ==
    CASE n.w = "WithListeners" -> n.listeners
      [] n.w \in {"WithKey", "WithAttributes"} -> ListenersOfNode(n.node)
      [] n.w = "Tag" -> n.listeners

RECURSIVE ChildrenOf(_)
\* DomNode::children
ChildrenOf(n) ==
    IF n.w = "Tag" THEN n.children ELSE ChildrenOf(n.node)

RECURSIVE ValueOf(_)
\* DomNode::value
ValueOf(n) ==
    IF n.w = "Tag" THEN Tag(n.tagname) ELSE ValueOf(n.node)

\* The wrapper n around the listener-free half of the node it held.
Rewrap(n, s) ==
    [node |-> [n EXCEPT !.node = s.node], listeners |-> s.listeners]

RECURSIVE SplitListeners(_)
\* DomNode::split_listeners: (Self::WithoutListeners, Self::Listeners)
SplitListeners(n) ==
    CASE n.w = "WithListeners" -> [node |-> n.node, listeners |-> n.listeners]
      [] n.w \in {"WithKey", "WithAttributes"} ->
             Rewrap(n, SplitListeners(n.node))
      [] n.w = "Tag" ->
             [node |-> [n EXCEPT !.listeners = <<>>], listeners |-> n.listeners]

\* A usize is its two 32-bit words; the high word is 0 where usize has 32
\* bits.
Usizes(bits) ==
    [hi : IF bits = 64 THEN 0..1 ELSE {0}, lo : 0..(NumKeys - 1)]

\* `key as u32`
AsU32(key) == key.lo

\* u32 -> usize
AsUsize(k) == [hi |-> 0, lo |-> k]

\* WithKey(self, key as u32), past the assert.
with_key(n, key) ==
    [w |-> "WithKey", node |-> n, key |-> AsU32(key)]

with_attributes(n, attributes) ==
    [w |-> "WithAttributes", node |-> n, attributes |-> attributes]

\* WithListeners { node: without_listeners, listeners: (listeners, old) };
\* s is the split of the node.
with_listeners(s, listeners) ==
    [w |-> "WithListeners", node |-> s.node,
     listeners |-> <<listeners>> \o s.listeners]

\* The `index - attributes.len()` of WithAttributes::get_attribute.
InnerIndexSame(index, len) == index

InnerIndex(index, len) == index - len

\* <[KeyValue]>::get(index): None is <<>>, Some(kv) is <<kv>>.
SliceGet(attributes, index) ==
    IF index < Len(attributes) THEN <<attributes[index + 1]>> ELSE <<>>

RECURSIVE get_attribute(_, _)
\* The second argument of Option::or_else is evaluated when the first is
\* None.
OrElse(first, node, index) ==
    IF first # <<>> THEN first ELSE get_attribute(node, index)

\* DomNode::get_attribute
get_attribute(n, index) ==
    CASE n.w = "WithAttributes" ->
             OrElse(SliceGet(n.attributes, index), n.node,
                    InnerIndex(index, Len(n.attributes)))
      [] n.w \in {"WithKey", "WithListeners"} -> get_attribute(n.node, index)
      [] n.w = "Tag" -> SliceGet(n.attributes, index)

RECURSIVE AttributeIter(_, _)
\* The items of AttributeIter { node, index } until next returns None.
AttributeIterNext(node, index, res) ==
    IF res = <<>> THEN <<>> ELSE res \o AttributeIter(node, index + 1)

AttributeIter(node, index) ==
    AttributeIterNext(node, index, get_attribute(node, index))

\* DomNode::attributes, as the items it yields.
NodeAttributes(n) == AttributeIter(n, 0)

\* The attribute lists the builder calls are given.
AttrLists ==
    {<<>>, <<<<"x", "1">>>>, <<<<"z", "2">>>>,
     <<<<"x", "1">>, <<"y", "2">>>>, <<<<"y", "1">>, <<"x", "1">>>>}

\* The attribute lists a tag is built with.
TagAttrLists == {<<>>, <<<<"z", "1">>, <<"x", "2">>>>}

\* The node as add_node reads it.
Logical(n) ==
    Node(ValueOf(n), KeyOf(n), AttributesOf(n), ListenersOfNode(n),
         ChildrenOf(n))

\* The builder calls on one node: state is the width of usize in the build,
\* rendered the node, before.rendered the node the last call was made on,
\* cycle.message that call and cycle.n the number of calls made.
NodesInit ==
    /\ app = "nodes"
    /\ state \in {32, 64}
    /\ \E children \in {<<>>, <<Node(Text("a"), <<>>, <<>>, <<>>, <<>>)>>},
          attrs \in TagAttrLists :
          rendered = [TagNode("div", children) EXCEPT !.attributes = attrs]
    /\ vdom_root = <<>>
    /\ host = <<>>
    /\ pc = "building"
    /\ cycle = NoCycle
    /\ before = NoPass

Called(name, arg) ==
    /\ pc = "building"
    /\ cycle.n < MaxCalls
    /\ cycle' = [cycle EXCEPT !.n = @ + 1, !.message = <<name, arg>>]
    /\ before' = [before EXCEPT !.rendered = rendered]
    /\ UNCHANGED <<app, state, vdom_root, host>>

\* assert!(self.key() == None, "Attempted to add multiple keys to a DomNode")
CallWithKey ==
    \E key \in Usizes(state) :
        /\ Called("with_key", key)
        /\ IF KeyOf(rendered) # <<>>
           THEN pc' = "crashed" /\ rendered' = rendered
           ELSE pc' = pc /\ rendered' = with_key(rendered, key)

CallWithAttributes ==
    \E attributes \in AttrLists :
        /\ Called("with_attributes", attributes)
        /\ rendered' = with_attributes(rendered, attributes)
        /\ pc' = pc

CallWithListeners ==
    \E ptr \in 1..NumClosures :
        /\ Called("with_listeners", Click(ptr))
        /\ rendered' = with_listeners(SplitListeners(rendered), Click(ptr))
        /\ pc' = pc

NodesNext == CallWithKey \/ CallWithAttributes \/ CallWithListeners

SpecNodes == NodesInit /\ [][NodesNext]_vars

\* ----------------------------------------------------------------- C17
RECURSIVE KeyCount(_)
\* The number of WithKey layers of a node.
KeyCount(n) ==
    IF n.w = "Tag" THEN 0
    ELSE (IF n.w = "WithKey" THEN 1 ELSE 0) + KeyCount(n.node)

WithKeyCalled ==
    cycle.message # <<>> /\ cycle.message[1] = "with_key"

\* with_key panics on a node that reports a key, whatever wraps the key.
AbortsOnSecondKey ==
    WithKeyCalled =>
        (pc = "crashed" <=> KeyOf(before.rendered) # <<>>)

\* with_key leaves value, attributes, children and listeners as they were.
RestUnchanged ==
    (WithKeyCalled /\ pc = "building") =>
        [Logical(rendered) EXCEPT !.key = <<>>] = Logical(before.rendered)

\* The key the node reports is the low word of the key given.
KeyTruncated ==
    (WithKeyCalled /\ pc = "building") =>
        KeyOf(rendered) = <<AsU32(cycle.message[2])>>

\* The key the node reports is the key given.
KeyAsGiven ==
    (WithKeyCalled /\ pc = "building") =>
        /\ KeyOf(rendered) # <<>>
        /\ AsUsize(KeyOf(rendered)[1]) = cycle.message[2]

\* C17: with_key panics whenever the node already reports a key, also a key
\* beneath with_attributes / with_listeners wrappers; otherwise the node it
\* returns reports the key given and the value, attributes, children and
\* listeners it had; no node carries two keys.
C17_WithKeySetsOneKey ==
    /\ AbortsOnSecondKey
    /\ RestUnchanged
    /\ KeyAsGiven
    /\ KeyCount(rendered) <= 1

\* The part of C17 that holds in every build: the key reported is the key
\* given cut to 32 bits.
C17_WithKeyLowWord ==
    /\ AbortsOnSecondKey
    /\ RestUnchanged
    /\ KeyTruncated
    /\ KeyCount(rendered) <= 1

C17_Witness ==
    /\ WithKeyCalled
    /\ pc = "crashed"
    /\ before.rendered.w = "WithListeners"
    /\ before.rendered.node.w = "WithKey"

\* ----------------------------------------------------------------- C15
IsPrefix(p, q) ==
    Len(p) <= Len(q) /\ SubSeq(q, 1, Len(p)) = p

Front(q) == SubSeq(q, 1, Len(q) - 1)

Last(q) == q[Len(q)]

\* The last call of the log is the one the browser failed.
LastCallFailed ==
    /\ host.calls # <<>>
    /\ FaultHit(host)
    /\ LET c == Last(host.calls)
       IN  CASE host.fault[1] = "create" ->
                    /\ c.op \in {"create_element", "create_text"}
                    /\ c.node = -1
                    /\ \A i \in 1..(Len(host.calls) - 1) :
                          host.calls[i].op \in {"create_element", "create_text"}
                             => host.calls[i].node # -1
             [] host.fault[1] = "insert" ->
                    /\ c.op = "insert_child"
                    /\ c.child \notin Range(host.nodes[c.parent].kids)
             [] host.fault[1] = "move" -> c.op = "move_child"

\* The failing pass issued the calls of the same pass in a sound browser up
\* to the failing one, and nothing after it.
StopsAtFailure ==
    (pc = "reconcile" /\ pc' = "crashed") =>
        IsPrefix(Front(host'.calls),
                 TopLevelPass(host, vdom_root, rendered).h.calls)

\* C15 as stated: the failure of a host call reaches the dispatch driver as
\* an error value returned through the reconciliation calls.
C15_FailureReturnedAsError ==
    FaultHit(host) => Last(cycle.trace) = "Err"

\* C15 amended: the failure of a host call is a panic at the failing call,
\* never a returned error value: the failing call is the last host call of
\* the pass, the calls before it are those of the sound pass and stay
\* applied, and the program takes no further step.
C15_FailureIsFatal ==
    /\ [](FaultHit(host) => host.panicked)
    /\ [](host.panicked <=> pc = "crashed")
    /\ [](FaultHit(host) => Last(cycle.trace) = "panic" /\ LastCallFailed)
    /\ [][StopsAtFailure]_vars
    /\ [][pc # "crashed"]_vars

C15_Witness ==
    /\ pc = "crashed"
    /\ host.fault[1] = "insert"
    /\ Len(CallsOf({"insert_child"})) = 2
    /\ Len(CallsOf({"create_text"})) = 2
\* ----------------------------------------------------------------- C18
\* C18: no second dispatch begins between the start of a dispatch and the
\* end of its reconciliation pass, also when a host call of the pass raises
\* an event: handle_listener is entered once per cycle.
C18_CyclesNeverOverlap ==
    /\ pc # "reentered"
    /\ \A i \in 2..Len(cycle.trace) : cycle.trace[i] # "handle_event"

C18_Witness ==
    /\ pc = "reentered"
    /\ cycle.trace = <<"handle_event", "update", "render", "reconcile",
                       "handle_event">>
\* ----------------------------------------------------------------- C19
\* The name of the k-th handle a pass allocates, outside the pool's range.
NewHandle(k) == 1000 + k

Renamed(map, handle) ==
    IF handle \in DOMAIN map THEN map[handle] ELSE handle

Naming(map, handle, k) ==
    [x \in (DOMAIN map) \cup {handle} |->
        IF x = handle THEN NewHandle(k) ELSE map[x]]

\* The call with its handles renamed by map.
RenamedCall(map, c) ==
    CASE c.op \in {"remove_node", "set_attribute", "remove_attribute"} ->
             [c EXCEPT !.node = Renamed(map, @)]
      [] c.op = "insert_child" ->
             [c EXCEPT !.parent = Renamed(map, @), !.child = Renamed(map, @)]
      [] c.op = "move_child" -> [c EXCEPT !.parent = Renamed(map, @)]
      [] c.op = "remove_listener" ->
             [c EXCEPT !.node = Renamed(map, @), !.listener = Renamed(map, @)]
      [] c.op = "add_listener" -> [c EXCEPT !.node = Renamed(map, @)]
      [] OTHER -> c

\* The handle the call got from the pool, if it got one.
Allocated(c) ==
    CASE c.op \in {"create_element", "create_text"} -> <<c.node>>
      [] c.op = "add_listener" -> <<c.listener>>
      [] OTHER -> <<>>

RECURSIVE RenameCalls(_, _, _)
\* The calls of a pass with the handles the pass allocated renamed in the
\* order of their allocation; n is [map, k, out].
RenameCalls(calls, i, n) ==
    IF i > Len(calls) THEN n
    ELSE IF Allocated(calls[i]) = <<>>
    THEN RenameCalls(calls, i + 1,
             [n EXCEPT !.out = Append(@, RenamedCall(n.map, calls[i]))])
    ELSE RenameCalls(calls, i + 1,
             [map |-> Naming(n.map, Allocated(calls[i])[1], n.k),
              k |-> n.k + 1,
              out |-> Append(n.out,
                        RenamedCall(Naming(n.map, Allocated(calls[i])[1], n.k),
                            IF calls[i].op = "add_listener"
                            THEN [calls[i] EXCEPT !.listener = NewHandle(n.k)]
                            ELSE [calls[i] EXCEPT !.node = NewHandle(n.k)]))])

RECURSIVE RenameLevel(_, _)
\* The shadow nodes of a level with their handles renamed by map.
RenameLevel(map, level) ==
    [i \in 1..Len(level) |->
        [level[i] EXCEPT
            !.web_element = Renamed(map, @),
            !.listeners = [j \in 1..Len(@) |->
                              [@[j] EXCEPT !.element = Renamed(map, @)]],
            !.children = RenameLevel(map, @)]]

\* What is left of the result of a pass when the handles it allocated are
\* named by the order of their allocation; n is the renaming of its calls.
UpToHandles(r, n) ==
    [calls |-> n.out, level |-> RenameLevel(n.map, <<r.root>>)]

Normal(r) ==
    UpToHandles(r, RenameCalls(r.h.calls, 1,
                               [map |-> [x \in {} |-> 0], k |-> 0, out |-> <<>>]))

Reverse(q) == [i \in 1..Len(q) |-> q[Len(q) + 1 - i]]

\* Pools that own the same handles: the free list in another order, and a
\* pool with one more free slot.
AltPools(h) ==
    {[h EXCEPT !.free = Reverse(@)],
     [h EXCEPT !.free = IF @ = <<>> THEN @ ELSE Append(Tail(@), Head(@))],
     [h EXCEPT !.free = Append(@, h.poolLen), !.poolLen = @ + 1]}

\* The page as run finds it.
LoadedHost ==
    [poolLen |-> 0, free |-> <<>>, live |-> {},
     nodes |-> [n \in {RootElement} |-> NewDomNode("element", "body")],
     subs |-> {}, calls |-> <<>>, stale |-> FALSE, panicked |-> FALSE,
     fault |-> <<>>, reentered |-> FALSE]

\* The program just after run has drawn the tree of state st.
Mounted(st) ==
    FirstPass(PoolAlloc(LoadedHost), Render(app, st))

SameResult(r1, r2) ==
    r1.h.calls = r2.h.calls /\ r1.root = r2.root

\* The pass from the state run leaves differs from the pass of this state.
Differs(m) ==
    /\ m.root = vdom_root
    /\ ~SameResult(TopLevelPass([m.h EXCEPT !.calls = <<>>], m.root, rendered),
                   TopLevelPass(host, vdom_root, rendered))

\* C19 as stated: two passes from equal shadow states with equal logical
\* trees issue the same host calls with the same arguments and end in equal
\* shadow states; the second pass here starts where run has just drawn the
\* same shadow tree.
C19_SameShadowSameResult ==
    pc = "reconcile" =>
        \A st \in States(app) : ~Differs(Mounted(st))

SameUpToHandles(h1, h2) ==
    Normal(TopLevelPass(h1, vdom_root, rendered))
        = Normal(TopLevelPass(h2, vdom_root, rendered))

\* C19 amended: two passes from equal shadow states with equal logical
\* trees issue the same host calls and end in equal shadow states up to the
\* handles the host allocates during the pass, which depend on the host's
\* pool: its length and the order of its free list.
C19_DeterministicUpToHandles ==
    pc = "reconcile" =>
        /\ \A h2 \in AltPools(host) : SameUpToHandles(host, h2)
        /\ \A st \in States(app) :
              Mounted(st).root = vdom_root =>
                  SameUpToHandles(host, [Mounted(st).h EXCEPT !.calls = <<>>])

C19_Witness ==
    /\ pc = "reconcile"
    /\ host.free # <<>>
    /\ \E st \in States(app) : Differs(Mounted(st))

\* ----------------------------------------------------------------- C20
RECURSIVE DuplicateSiblingKeys(_)
\* Two children of one node of the tree carry the same key.
DuplicateSiblingKeys(node) ==
    \/ \E i, j \in 1..Len(node.children) :
          /\ i < j
          /\ node.children[i].key # <<>>
          /\ node.children[i].key = node.children[j].key
    \/ \E i \in 1..Len(node.children) : DuplicateSiblingKeys(node.children[i])

\* C20: a pass over a logical tree in which two siblings carry the same key
\* fails.
C20_DuplicateKeysFail ==
    (pc = "idle" /\ rendered # <<>>) => ~DuplicateSiblingKeys(rendered)

\* A pass over duplicate keys has run to its end: the shadow tree and the
\* document show both siblings.
C20_Witness ==
    /\ PassDone
    /\ DuplicateSiblingKeys(rendered)
    /\ host.calls # <<>>
    /\ InSync(vdom_root)

\* ------------------------------------------------- collections of nodes
\* DomNodes::process_all over the collection types of processors.rs, with
\* a processor that records the nodes it is handed and fails on some.
NumProcNodes == 2
MaxItems == 2

ProcIds == 1..NumProcNodes

\* A node that has no children: its Children type is ().
Leaf(id) == [c |-> "node", id |-> id, children |-> [c |-> "unit"]]

\* The tag i: a node whose children are a tuple of two other nodes.
TagOf(i) ==
    [c |-> "node", id |-> i,
     children |-> [c |-> "tuple",
                   items |-> <<Leaf(10 + i),
                               Leaf(20 + (i % NumProcNodes) + 1)>>]]

Seqs(S, lo, hi) == UNION {[1..n -> S] : n \in lo..hi}

ProcNodes == {TagOf(i) : i \in ProcIds}

\* (), None, Some(node), node
Items0 ==
    {[c |-> "unit"], [c |-> "option", inner |-> <<>>]}
        \cup {[c |-> "option", inner |-> <<n>>] : n \in ProcNodes}
        \cup ProcNodes

\* [T; n], Vec<T> and &[T] of nodes
NodeSeqs ==
    {[c |-> k, items |-> s] :
        k \in {"array", "vec", "slice"}, s \in Seqs(ProcNodes, 0, MaxItems)}

\* The collections processed: the ones above, tuples of them, and tuples
\* of two that hold arrays, Vecs and slices.
Collections ==
    Items0 \cup NodeSeqs
        \cup {[c |-> "tuple", items |-> s] : s \in Seqs(Items0, 1, MaxItems)}
        \cup {[c |-> "tuple", items |-> <<a, b>>] :
                 a \in Items0 \cup NodeSeqs, b \in NodeSeqs}

\* The processor's accumulator: the nodes it was called on and the nodes
\* it processed.
ProcAcc == [seen |-> <<>>, done |-> <<>>]

\* Result<(), P::Error> beside the accumulator: err is <<>> for Ok(()).
ProcOk(acc) == [acc |-> acc, err |-> <<>>]

\* The processor fails on a node whose tag is in fails, and on a child
\* whose tag is.
ProcFails(id, fails) == (id % 10) \in fails

\* P::get_processor()(acc, node)
get_processor(acc, node, fails) ==
    IF ProcFails(node.id, fails)
    THEN [acc |-> [acc EXCEPT !.seen = Append(@, node.id)],
          err |-> <<node.id>>]
    ELSE ProcOk([seen |-> Append(acc.seen, node.id),
                 done |-> Append(acc.done, node.id)])

\* The `?` on a result: whether it returns early.
ReturnsEarlyNever(r) == FALSE

ReturnsEarly(r) == r.err # <<>>

\* The order in which the impl for a tuple of n elements names its
\* fields: the macro is given (9 => J) .. (0 => A) and expands the
\* reversed list.
TupleOrderAsListed(n) == [i \in 1..n |-> n + 1 - i]

TupleOrder(n) == [i \in 1..n |-> i]

RECURSIVE process_all(_, _, _)
RECURSIVE ForEach(_, _, _, _, _)
\* x.process_all::<P>(acc)?; and the rest of the loop
AndThen(items, order, i, fails, r) ==
    IF ReturnsEarly(r) THEN r
    ELSE ForEach(items, order, i + 1, fails, r.acc)

\* for x in self { x.process_all::<P>(acc)?; } Ok(()), and the tuple's
\* statements in the order of their fields.
ForEach(items, order, i, fails, acc) ==
    IF i > Len(order) THEN ProcOk(acc)
    ELSE AndThen(items, order, i, fails,
                 process_all(items[order[i]], fails, acc))

process_all(x, fails, acc) ==
    CASE x.c = "node" -> get_processor(acc, x, fails)
      [] x.c = "unit" -> ProcOk(acc)
      [] x.c = "option" ->
             IF x.inner # <<>> THEN process_all(x.inner[1], fails, acc)
             ELSE ProcOk(acc)
      [] x.c = "tuple" ->
             ForEach(x.items, TupleOrder(Len(x.items)), 1, fails, acc)
      [] x.c \in {"array", "vec", "slice"} ->
             ForEach(x.items, [i \in 1..Len(x.items) |-> i], 1, fails, acc)

\* process_all called on a collection, or process_all called on the
\* children of a node: state is the set of tags the processor fails on,
\* rendered the collection, cycle.message the call made and host its
\* result.
ProcInit ==
    /\ app = "process"
    /\ state \in SUBSET ProcIds
    /\ rendered \in Collections
    /\ vdom_root = <<>>
    /\ host = ProcOk(ProcAcc)
    /\ pc = "ready"
    /\ cycle = NoCycle
    /\ before = NoPass

Processed(name, x) ==
    /\ pc = "ready"
    /\ pc' = "done"
    /\ cycle' = [cycle EXCEPT !.n = 1, !.message = <<name>>]
    /\ host' = process_all(x, state, host.acc)
    /\ UNCHANGED <<app, state, rendered, vdom_root, before>>

CallProcessAll == Processed("process_all", rendered)

\* node.children().process_all::<P>(acc)
CallProcessChildren ==
    /\ rendered.c = "node"
    /\ Processed("process_children", rendered.children)

ProcNext == CallProcessAll \/ CallProcessChildren

SpecProc == ProcInit /\ [][ProcNext]_vars

\* ----------------------------------------------------------------- C21
RECURSIVE FlattenSeq(_, _)
RECURSIVE Flatten(_)
\* The nodes a collection holds, left to right: a node is itself, () and
\* None hold nothing, Some holds what is in it, and a tuple, array, Vec
\* or slice holds what its elements hold.
Flatten(x) ==
    CASE x.c = "node" -> <<x.id>>
      [] x.c = "unit" -> <<>>
      [] x.c = "option" -> FlattenSeq(x.inner, 1)
      [] OTHER -> FlattenSeq(x.items, 1)

FlattenSeq(items, i) ==
    IF i > Len(items) THEN <<>>
    ELSE Flatten(items[i]) \o FlattenSeq(items, i + 1)

\* The collection the call was made on.
Processing ==
    IF cycle.message = <<"process_all">> THEN rendered ELSE rendered.children

\* The positions of the nodes the processor fails on.
FailingAt(ids) == {k \in 1..Len(ids) : ProcFails(ids[k], state)}

FirstOf(S) == CHOOSE k \in S : \A j \in S : k <= j

StopsAtFirstError(ids, at) ==
    IF at = {}
    THEN /\ host.err = <<>>
         /\ host.acc.seen = ids
         /\ host.acc.done = ids
    ELSE /\ host.err = <<ids[FirstOf(at)]>>
         /\ host.acc.seen = SubSeq(ids, 1, FirstOf(at))
         /\ host.acc.done = SubSeq(ids, 1, FirstOf(at) - 1)

\* C21: process_all over a collection stops at the first node whose
\* processor returns an error: it returns that error, the processor is
\* called on no later node, and the accumulator holds the effects of the
\* nodes before it and of no other.
C21_StopsAtFirstError ==
    pc = "done" =>
        StopsAtFirstError(Flatten(Processing), FailingAt(Flatten(Processing)))

C21_Witness ==
    /\ pc = "done"
    /\ rendered.c = "tuple"
    /\ Len(rendered.items) = 2
    /\ rendered.items[2].c = "vec"
    /\ Len(Flatten(rendered)) = 3
    /\ host.err # <<>>
    /\ Len(host.acc.done) = 1
    /\ Len(host.acc.seen) = 2

\* ----------------------------------------------------------------- C22
RECURSIVE CountNodes(_)
RECURSIVE CountSeq(_, _)
\* The number of nodes a collection holds, a node counted once whatever
\* its children.
CountNodes(x) ==
    CASE x.c = "node" -> 1
      [] x.c = "unit" -> 0
      [] x.c = "option" -> CountSeq(x.inner, 1)
      [] OTHER -> CountSeq(x.items, 1)

CountSeq(items, i) ==
    IF i > Len(items) THEN 0
    ELSE CountNodes(items[i]) + CountSeq(items, i + 1)

\* The children of the nodes of the model carry the ids above 10.
IsChildId(id) == id > 10

VisitsEachOnce(x, ids) ==
    /\ IsPrefix(host.acc.seen, ids)
    /\ host.err = <<>> =>
          /\ host.acc.seen = ids
          /\ Len(host.acc.seen) = CountNodes(x)
    /\ x.c = "node" => host.acc.seen = <<x.id>>
    /\ cycle.message = <<"process_all">> =>
          \A k \in 1..Len(host.acc.seen) : ~IsChildId(host.acc.seen[k])
    /\ cycle.message = <<"process_children">> =>
          \A k \in 1..Len(host.acc.seen) : IsChildId(host.acc.seen[k])

\* C22: process_all over a collection calls the processor once for each
\* node the collection holds, left to right through nested tuples,
\* arrays, Vecs, slices and Options, with nothing for an empty one, and
\* never on the children of a node: those are reached only by
\* process_all on the node's children.
C22_VisitsEachNodeOnceInOrder ==
    pc = "done" => VisitsEachOnce(Processing, Flatten(Processing))

C22_Witness ==
    /\ pc = "done"
    /\ cycle.message = <<"process_all">>
    /\ rendered.c = "tuple"
    /\ Len(rendered.items) = 2
    /\ rendered.items[1].c = "node"
    /\ rendered.items[2].c = "array"
    /\ host.err = <<>>
    /\ host.acc.seen = <<1, 2, 1>>

\* ----------------------------------------------------------------- C23
\* The indices asked for: past the most attributes a node can hold.
MaxIndex == 2 + 2 * MaxCalls + 2

\* The least index at which get_attribute returns None.
AttributeCount(n) ==
    CHOOSE i \in 0..MaxIndex :
        /\ get_attribute(n, i) = <<>>
        /\ \A j \in 0..(i - 1) : get_attribute(n, j) # <<>>

\* get_attribute(0), get_attribute(1), .. up to the first None.
ByIndex(n) == [i \in 1..AttributeCount(n) |-> get_attribute(n, i - 1)[1]]

\* The attributes of the node built so far, from the calls that built
\* it: the list of a with_attributes call before the attributes of the
\* node it was called on, and the tag's own list at the start.
GivenAttributes ==
    CASE cycle.n = 0 -> rendered.attributes
      [] cycle.n > 0 /\ pc # "crashed"
             /\ cycle.message[1] = "with_attributes" ->
             cycle.message[2] \o ByIndex(before.rendered)
      [] OTHER -> ByIndex(before.rendered)

\* C23: get_attribute(i) enumerates the attributes at the indices from
\* 0: those of the most recent with_attributes call first, then those of
\* the earlier calls and of the tag, each list in its order; it is None
\* at every index from the count on, and attributes() yields the same
\* sequence.
C23_AttributesByIndex ==
    pc \in {"building", "crashed"} =>
        /\ ByIndex(rendered) = GivenAttributes
        /\ \A i \in 0..MaxIndex :
              get_attribute(rendered, i) = <<>> <=> i >= Len(GivenAttributes)
        /\ NodeAttributes(rendered) = GivenAttributes

C23_Witness ==
    /\ pc = "building"
    /\ cycle.n = 3
    /\ cycle.message = <<"with_attributes", <<<<"x", "1">>, <<"y", "2">>>>>>
    /\ NodeAttributes(rendered)
          = << <<"x", "1">>, <<"y", "2">>, <<"y", "1">>, <<"x", "1">>,
               <<"z", "1">>, <<"x", "2">> >>

\* ------------------------------------------------ iterating a key path
MaxDepth == 3

\* KeyIter(Keys, u32), from IntoIterator for Keys
into_iter(ks) == [it |-> "KeyIter", keys |-> ks, index |-> 0]

\* KeyStack::iter_from_bottom, of the earlier revision of the key path
iter_from_bottom(ks) ==
    [it |-> "KeyStackFromBottomIter", keys |-> ks, index |-> 0]

\* KeyStack::get_at
get_at(ks, index) == IF index < ks.size THEN <<ks.stack[index]>> ELSE <<>>

\* next reading the bottom of the stack at every call.
KeyIterItemFirst(it) ==
    IF it.index < it.keys.size THEN <<it.keys.stack[0]>> ELSE <<>>

\* What KeyIter::next and KeyStackFromBottomIter::next return: <<>> is
\* None, <<k>> is Some(k).
KeyIterItem(it) ==
    IF it.it = "KeyIter"
    THEN IF it.index < it.keys.size
         THEN <<it.keys.stack[it.index]>>
         ELSE <<>>
    ELSE get_at(it.keys, it.index)

\* The iterator after the call: the index moves when an item is
\* yielded.
KeyIterNext(it) ==
    IF KeyIterItem(it) # <<>> THEN [it EXCEPT !.index = @ + 1] ELSE it

\* KeyIter::size_hint: (remaining, Some(remaining))
size_hint(it) ==
    [lower |-> it.keys.size - it.index, upper |-> <<it.keys.size - it.index>>]

\* A key path is built by pushes and then iterated: vdom_root is the
\* path, state the keys pushed, cycle.n the pushes made here, host the
\* iterator and cycle.trace what each call of next was told by size_hint
\* and what it returned.
IterInit ==
    /\ app = "iter"
    /\ \E n \in {0, KEY_STACK_LEN - 2}, k \in 0..(NumKeys - 1) :
          /\ vdom_root = [size |-> n,
                          stack |-> [i \in 0..(KEY_STACK_LEN - 1) |->
                                        IF i < n THEN k ELSE 0]]
          /\ state = [i \in 1..n |-> k]
    /\ rendered = <<>>
    /\ host = <<>>
    /\ pc = "path"
    /\ cycle = NoCycle
    /\ before = NoPass

IterPush ==
    /\ pc = "path"
    /\ cycle.n < MaxDepth
    /\ ~KeysFull(vdom_root)
    /\ \E key \in 0..(NumKeys - 1) :
          /\ vdom_root' = KeysPush(vdom_root, key)
          /\ state' = Append(state, key)
    /\ cycle' = [cycle EXCEPT !.n = @ + 1]
    /\ UNCHANGED <<app, rendered, host, pc, before>>

IterStart(it) ==
    /\ pc = "path"
    /\ pc' = "iterating"
    /\ host' = it
    /\ UNCHANGED <<app, state, rendered, vdom_root, cycle, before>>

IterIntoIter == IterStart(into_iter(vdom_root))

IterFromBottom == IterStart(iter_from_bottom(vdom_root))

\* next is called until it has returned None twice.
IterNextCall ==
    /\ pc = "iterating"
    /\ cycle' = [cycle EXCEPT !.trace =
                    Append(@, [hint |-> size_hint(host),
                               item |-> KeyIterItem(host)])]
    /\ host' = KeyIterNext(host)
    /\ pc' = IF KeyIterItem(host) = <<>> /\ cycle.trace # <<>>
                   /\ cycle.trace[Len(cycle.trace)].item = <<>>
             THEN "done" ELSE pc
    /\ UNCHANGED <<app, state, rendered, vdom_root, before>>

IterNext == IterPush \/ IterIntoIter \/ IterFromBottom \/ IterNextCall

SpecIter == IterInit /\ [][IterNext]_vars

\* ----------------------------------------------------------------- C24
\* What the k-th call of next on a path of the pushed keys returns.
ExpectedItem(pushed, k) == IF k <= Len(pushed) THEN <<pushed[k]>> ELSE <<>>

\* C24: iterating a key path yields the keys pushed, the first pushed
\* first, and then None; before every call of next, size_hint of KeyIter
\* is exactly the number of keys not yet yielded, as lower and as upper
\* bound.
C24_YieldsPushedKeysInOrder ==
    pc \in {"iterating", "done"} =>
        /\ \A k \in 1..Len(cycle.trace) :
              /\ cycle.trace[k].item = ExpectedItem(state, k)
              /\ host.it = "KeyIter" =>
                    /\ cycle.trace[k].hint.lower
                          = IF k <= Len(state) THEN Len(state) - (k - 1) ELSE 0
                    /\ cycle.trace[k].hint.upper
                          = <<cycle.trace[k].hint.lower>>
        /\ pc = "done" => Len(cycle.trace) = Len(state) + 2

C24_Witness ==
    /\ pc = "done"
    /\ host.it = "KeyIter"
    /\ state = <<2, 0, 1>>
    /\ Len(cycle.trace) = 5
    /\ cycle.trace[1].hint.lower = 3

\* --------------------------------------------------------- writing HTML
\* HtmlWriter on a Vec<u8>: the buffer is the sequence of the pieces
\* written, a piece being a character or a name written whole. The text
\* of a text node is the sequence of its characters and a tag name a
\* sequence of one piece.
HtmlTexts == {<<"a">>, <<"<">>, <<"a", "&", "b">>}

HtmlAttrLists ==
    {<<>>, <<<<"x", "1">>>>, <<<<"x", "1">>, <<"y", "2">>>>,
     <<<<"y", "2">>, <<"x", "1">>>>}

HtmlTextNodes == {Node(Text(t), <<>>, <<>>, <<>>, <<>>) : t \in HtmlTexts}

\* <p>, plain or with a key and a listener, around at most one text
HtmlInner ==
    {Node(Tag(<<"p">>), kl[1], attrs, kl[2], children) :
        kl \in {<< <<>>, <<>> >>, << <<1>>, <<Click(1)>> >>},
        attrs \in HtmlAttrLists,
        children \in Seqs(HtmlTextNodes, 0, 1)}

HtmlTrees ==
    HtmlTextNodes
        \cup {Node(Tag(<<"div">>), kl[1], attrs, kl[2], children) :
                 kl \in {<< <<>>, <<>> >>, << <<0>>, <<Click(2)>> >>},
                 attrs \in {<<>>, <<<<"z", "1">>, <<"x", "2">>>>},
                 children \in Seqs(HtmlTextNodes \cup HtmlInner, 0, MaxItems)}

\* marksman_escape::Escape on one character of the text
EscapeNone(c) == <<c>>

Escape(c) ==
    CASE c = "<" -> <<"&", "l", "t", ";">>
      [] c = ">" -> <<"&", "g", "t", ";">>
      [] c = "&" -> <<"&", "a", "m", "p", ";">>
      [] OTHER -> <<c>>

RECURSIVE WriteEscaped(_, _, _)
\* for escaped_u8 in Escape::new(text.bytes()) { w.write(&[escaped_u8])?; }
WriteEscaped(w, text, i) ==
    IF i > Len(text) THEN w
    ELSE WriteEscaped(w \o Escape(text[i]), text, i + 1)

RECURSIVE WriteAttributes(_, _, _)
\* for attr in node.attributes() { write!(w, " {}=\"{}\"", attr.0, attr.1)?; }
WriteAttributes(w, attrs, i) ==
    IF i > Len(attrs) THEN w
    ELSE WriteAttributes(w \o <<" ", attrs[i][1], "=\"", attrs[i][2], "\"">>,
                         attrs, i + 1)

RECURSIVE HtmlAddNode(_, _)
RECURSIVE HtmlChildren(_, _, _)
\* node.children().process_all::<HtmlWriter<W>>(w)
HtmlChildren(w, children, i) ==
    IF i > Len(children) THEN w
    ELSE HtmlChildren(HtmlAddNode(w, children[i]), children, i + 1)

\* write!(w, "</{}>", tagname)
HtmlClose(w, tagname) == w \o <<"</">> \o tagname \o <<">">>

\* HtmlWriter's add_node
HtmlAddNode(w, node) ==
    IF node.value.kind = "Tag"
    THEN HtmlClose(
             HtmlChildren(
                 WriteAttributes(w \o <<"<">> \o node.value.s,
                                 node.attributes, 1) \o <<">">>,
                 node.children, 1),
             node.value.s)
    ELSE WriteEscaped(w, node.value.s, 1)

\* DomNode::write_html into an empty buffer: rendered is the tree and
\* host the buffer.
HtmlInit ==
    /\ app = "html"
    /\ state = <<>>
    /\ rendered \in HtmlTrees
    /\ vdom_root = <<>>
    /\ host = <<>>
    /\ pc = "ready"
    /\ cycle = NoCycle
    /\ before = NoPass

WriteHtml ==
    /\ pc = "ready"
    /\ pc' = "done"
    /\ host' = HtmlAddNode(host, rendered)
    /\ UNCHANGED <<app, state, rendered, vdom_root, cycle, before>>

HtmlNext == WriteHtml

SpecHtml == HtmlInit /\ [][HtmlNext]_vars

\* ----------------------------------------------------------------- C25
RECURSIVE Concat(_, _)
\* The sequences of ss, one after the other.
Concat(ss, i) == IF i > Len(ss) THEN <<>> ELSE ss[i] \o Concat(ss, i + 1)

\* name="value" after a space
AttributeText(kv) == <<" ", kv[1], "=\"", kv[2], "\"">>

\* The characters < > & as the entities that stand for them.
Entity(c) ==
    CASE c = "<" -> <<"&", "l", "t", ";">>
      [] c = ">" -> <<"&", "g", "t", ";">>
      [] c = "&" -> <<"&", "a", "m", "p", ";">>
      [] OTHER -> <<c>>

RECURSIVE Serialized(_, _)
\* The HTML of a tree: of an element, the opening tag name, the
\* attributes in order, the HTML of the children in order and the
\* closing tag; of a text node its text, as it is or with entities.
Serialized(node, escaped) ==
    IF node.value.kind = "Tag"
    THEN <<"<">> \o node.value.s
           \o Concat([i \in 1..Len(node.attributes) |->
                         AttributeText(node.attributes[i])], 1)
           \o <<">">>
           \o Concat([i \in 1..Len(node.children) |->
                         Serialized(node.children[i], escaped)], 1)
           \o <<"</">> \o node.value.s \o <<">">>
    ELSE IF escaped
         THEN Concat([i \in 1..Len(node.value.s) |-> Entity(node.value.s[i])], 1)
         ELSE node.value.s

RECURSIVE Bare(_)
\* The tree without its keys and listeners.
Bare(node) ==
    Node(node.value, <<>>, node.attributes, <<>>,
         [i \in 1..Len(node.children) |-> Bare(node.children[i])])

\* C25 as stated: the HTML of an element is its opening tag name, its
\* attributes as name="value" in order, the HTML of its children in
\* order and its closing tag, and the HTML of a text node is its text.
C25_TextWrittenAsIs ==
    pc = "done" => host = Serialized(rendered, FALSE)

\* C25 amended: the same, with the text of a text node written with its
\* characters < > & replaced by entities; keys and listeners add nothing.
C25_TextWrittenEscaped ==
    pc = "done" =>
        /\ host = Serialized(rendered, TRUE)
        /\ host = Serialized(Bare(rendered), TRUE)

C25_Witness ==
    /\ pc = "done"
    /\ rendered.value = Tag(<<"div">>)
    /\ rendered.key # <<>>
    /\ Len(rendered.attributes) = 2
    /\ Len(rendered.children) = 2
    /\ rendered.children[1].value = Tag(<<"p">>)
    /\ rendered.children[1].listeners # <<>>
    /\ Len(rendered.children[1].attributes) = 2
    /\ rendered.children[1].children # <<>>
    /\ rendered.children[2].value = Text(<<"a", "&", "b">>)
    /\ host # Serialized(rendered, FALSE)

\* ----------------------------------------------------------------- C26
\* The root of the application was matched by the pass.
RootKept ==
    /\ PassDone
    /\ Len(before.vdom.children) = 1
    /\ Len(vdom_root.children) = 1
    /\ vdom_root.children[1].web_element = before.vdom.children[1].web_element

\* A shadow sibling as the choice sees it; a node the pass creates has
\* no handle yet and stands as -1.
Sibling(vnode) ==
    [h |-> vnode.web_element, keys |-> KeyIterSeq(vnode.keys),
     value |-> vnode.value]

Created(path, node) == [h |-> -1, keys |-> path, value |-> node.value]

\* Equal key paths and equal tags; for text nodes equal texts, or by
\* kind only the Text kind.
SameSignature(sibling, path, node, byKind) ==
    /\ sibling.keys = path
    /\ IF byKind /\ node.value.kind = "Text"
       THEN sibling.value.kind = "Text"
       ELSE sibling.value = node.value

Candidates(level, i, path, node, byKind) ==
    {j \in i..(Len(level) - 1) :
        SameSignature(level[j + 1], path, node, byKind)}

Lowest(S) == CHOOSE j \in S : \A k \in S : j <= k

\* The level after the candidate at cursor i chose among js: the lowest
\* of js brought to i, or a created node put at i when js is empty.
Chosen(level, i, path, node, js) ==
    IF js = {} THEN InsertAt(level, i, Created(path, node))
    ELSE InsertAt(RemoveAt(level, Lowest(js)), i, level[Lowest(js) + 1])

RECURSIVE Choices(_, _, _, _, _)
\* The level after each candidate from cursor i on has made its choice.
Choices(level, nodes, i, parentPath, byKind) ==
    IF i >= Len(nodes) THEN level
    ELSE Choices(Chosen(level, i, parentPath \o nodes[i + 1].key, nodes[i + 1],
                        Candidates(level, i, parentPath \o nodes[i + 1].key,
                                   nodes[i + 1], byKind)),
                 nodes, i + 1, parentPath, byKind)

InsertCall(i) ==
    [op |-> "insert_child", parent |-> vdom_root.children[1].web_element,
     index |-> i - 1, child |-> NewKids[i].web_element]

\* The children of the root follow the choices: a chosen sibling is the
\* node at its candidate's index and is not inserted; where none was
\* chosen the node is a new one, inserted at the index.
FollowsChoices(choices) ==
    /\ Len(NewKids) = Len(rendered.children)
    /\ \A i \in 1..Len(NewKids) :
          IF choices[i].h # -1
          THEN /\ NewKids[i].web_element = choices[i].h
               /\ \A c \in Range(host.calls) :
                     c.op = "insert_child" => c.child # choices[i].h
          ELSE /\ NewKids[i].web_element \notin OldElements
               /\ InsertCall(i) \in Range(host.calls)

LevelChoices(byKind) ==
    Choices([j \in 1..Len(OldKids) |-> Sibling(OldKids[j])],
            rendered.children, 0,
            KeyIterSeq(vdom_root.children[1].keys), byKind)

\* C26 as stated: the sibling chosen for a candidate at cursor nextIndex
\* is the lowest j >= nextIndex with the candidate's key path and its
\* tag or Text kind.
C26_LowestMatchByKind ==
    RootKept => FollowsChoices(LevelChoices(TRUE))

\* C26 amended: the sibling chosen for a candidate at cursor nextIndex
\* is the lowest j >= nextIndex with the candidate's key path and its
\* value, the tag of an element or the text of a text node; siblings
\* below nextIndex are never chosen, and without such a j the candidate
\* is an insertion.
C26_LowestMatchByValue ==
    RootKept => FollowsChoices(LevelChoices(FALSE))

C26_Witness ==
    /\ RootKept
    /\ app = "list"
    /\ OldKeys = <<0, 1>>
    /\ NewKeys = <<2, 1>>
    /\ LevelChoices(FALSE)[1].h = -1
    /\ LevelChoices(FALSE)[2].h = OldKids[2].web_element

\* ----------------------------------------------------------------- C27
\* The names the shadow and the candidate both have, with two values.
ChangedNames ==
    {a[1] : a \in {a \in OldAttrs : \E b \in NewAttrs :
                      a[1] = b[1] /\ a[2] # b[2]}}

NewValue(name) == (CHOOSE b \in NewAttrs : b[1] = name)[2]

\* The positions of the calls of op on the attribute name of the root.
AttrCallsAt(op, name) ==
    {c \in 1..Len(host.calls) :
        /\ host.calls[c].op = op
        /\ host.calls[c].node = vdom_root.children[1].web_element
        /\ host.calls[c].name = name}

\* The shadow holds one entry for the name, with the candidate's value.
OneEntry(name) ==
    Cardinality({k \in 1..Len(vdom_root.children[1].attributes) :
                    vdom_root.children[1].attributes[k][1] = name}) = 1
        /\ <<name, NewValue(name)>> \in Range(vdom_root.children[1].attributes)

\* C27 as stated: an attribute whose value changed is overwritten with
\* one set_attribute(name, new value) and no remove_attribute(name), and
\* the shadow then holds one entry for the name, with the new value.
C27_ChangedValueOverwritten ==
    AttrsPass =>
        \A name \in ChangedNames :
            /\ AttrCallsAt("remove_attribute", name) = {}
            /\ Cardinality(AttrCallsAt("set_attribute", name)) = 1
            /\ OneEntry(name)

\* C27 amended: an attribute whose value changed is removed and set
\* again: one remove_attribute(name), then one set_attribute(name, new
\* value); the shadow then holds one entry for the name, with the new
\* value, and the element has the new value.
C27_ChangedValueRemovedThenSet ==
    AttrsPass =>
        \A name \in ChangedNames :
            /\ Cardinality(AttrCallsAt("remove_attribute", name)) = 1
            /\ Cardinality(AttrCallsAt("set_attribute", name)) = 1
            /\ \A r \in AttrCallsAt("remove_attribute", name),
                  c \in AttrCallsAt("set_attribute", name) :
                  r < c /\ host.calls[c].value = NewValue(name)
            /\ OneEntry(name)
            /\ host.nodes[vdom_root.children[1].web_element].attrs[name]
                  = NewValue(name)

C27_Witness ==
    /\ AttrsPass
    /\ OldAttrs = {<<"x", "1">>, <<"y", "2">>}
    /\ NewAttrs = {<<"x", "2">>, <<"y", "2">>}
    /\ Len(host.calls) = 2

\* ----------------------------------------------------------------- C28
\* The listener calls issued on the root node, in order.
RootListenerCalls ==
    SelectSeq(host.calls,
              LAMBDA c : c.op \in {"add_listener", "remove_listener"}
                            /\ c.node = vdom_root.children[1].web_element)

\* (handler identity, event type) of a shadow entry or of a listener
Identity(l) == <<l.ptr, l.ev>>

CountCalls(calls, P(_)) == Cardinality({c \in 1..Len(calls) : P(calls[c])})

\* C28: in the listener diff of a matched node, a shadow listener whose
\* (handler identity, event type) the candidate has keeps its
\* subscription handle and gets no listener call; each shadow listener
\* the candidate lacks gets one remove_listener, each candidate listener
\* the shadow lacks one add_listener, and the shadow listeners are then
\* the candidate's.
C28_ListenerDiff ==
    RootKept =>
        LET old == before.vdom.children[1].listeners
            now == vdom_root.children[1].listeners
            new == {Identity(l) : l \in Range(rendered.listeners)}
            had == {Identity(e) : e \in Range(old)}
        IN  /\ \A e \in Range(old) :
                  IF Identity(e) \in new
                  THEN /\ e \in Range(now)
                       /\ CountCalls(RootListenerCalls,
                              LAMBDA c : c.listener = e.element
                                  \/ (c.op = "add_listener"
                                        /\ <<c.ptr, c.ev>> = Identity(e))) = 0
                  ELSE /\ e \notin Range(now)
                       /\ CountCalls(RootListenerCalls,
                              LAMBDA c : c = RemoveListenerCall(e)) = 1
            /\ \A id \in new \ had :
                  CountCalls(RootListenerCalls,
                      LAMBDA c : c.op = "add_listener"
                                    /\ <<c.ptr, c.ev>> = id) = 1
            /\ Len(RootListenerCalls)
                  = Cardinality(had \ new) + Cardinality(new \ had)
            /\ {Identity(e) : e \in Range(now)} = new
            /\ Len(now) = Cardinality(new)

C28_Witness ==
    /\ RootKept
    /\ app = "listeners"
    /\ Len(before.vdom.children[1].listeners) = 2
    /\ before.vdom.children[1].listeners[1] \in NewEntries
    /\ before.vdom.children[1].listeners[2] \notin NewEntries
    /\ Len(RootListenerCalls) = 2
    /\ RootListenerCalls[1].op = "remove_listener"
    /\ RootListenerCalls[2].op = "add_listener"

\* ----------------------------------------------------------------- C29
RECURSIVE MatchIndices(_, _, _, _)
\* The index chosen for the candidate at cursor i and for those after
\* it; -1 where none is chosen.
MatchIndicesFrom(level, nodes, i, parentPath, js) ==
    <<IF js = {} THEN -1 ELSE Lowest(js)>>
        \o MatchIndices(Chosen(level, i, parentPath \o nodes[i + 1].key,
                               nodes[i + 1], js),
                        nodes, i + 1, parentPath)

MatchIndices(level, nodes, i, parentPath) ==
    IF i >= Len(nodes) THEN <<>>
    ELSE MatchIndicesFrom(level, nodes, i, parentPath,
                          Candidates(level, i, parentPath \o nodes[i + 1].key,
                                     nodes[i + 1], FALSE))

\* The match index of each child of the root, in the pass done.
LevelMatches ==
    MatchIndices([j \in 1..Len(OldKids) |-> Sibling(OldKids[j])],
                 rendered.children, 0, KeyIterSeq(vdom_root.children[1].keys))

\* The candidates found away from their cursor, in order.
Displaced(js) == SelectSeq([i \in 1..Len(js) |-> i],
                           LAMBDA i : js[i] # -1 /\ js[i] # i - 1)

\* The positions of the move_child calls on the root's children.
MovePositions ==
    SelectSeq([c \in 1..Len(host.calls) |-> c],
              LAMBDA c : /\ host.calls[c].op = "move_child"
                         /\ host.calls[c].parent
                               = vdom_root.children[1].web_element)

\* The handles of the children the node of handle h had before the pass.
OldChildrenOf(h) ==
    UNION {{OldKids[j].children[k].web_element :
               k \in 1..Len(OldKids[j].children)} :
           j \in {j \in 1..Len(OldKids) : OldKids[j].web_element = h}}

\* The call is part of the diff of the i-th child of the root: of its
\* listeners, its attributes or its children.
OfItsDiff(c, i) ==
    CASE c.op \in {"set_attribute", "remove_attribute", "add_listener",
                   "remove_listener"} -> c.node = NewKids[i].web_element
      [] c.op \in {"insert_child", "move_child"} ->
             c.parent = NewKids[i].web_element
      [] c.op = "remove_node" -> c.node \in OldChildrenOf(NewKids[i].web_element)
      [] OTHER -> c.node \in {NewKids[i].children[k].web_element :
                                 k \in 1..Len(NewKids[i].children)}

\* The call creates, inserts or removes the i-th child of the root.
OnItsNode(c, i) ==
    CASE c.op = "insert_child" -> c.child = NewKids[i].web_element
      [] c.op \in {"create_element", "create_text", "remove_node"} ->
             c.node = NewKids[i].web_element
      [] OTHER -> FALSE

MovesWhereDisplaced(js, displaced, moves) ==
    /\ Len(moves) = Len(displaced)
    /\ \A k \in 1..Len(displaced) :
          /\ host.calls[moves[k]]
                = [op |-> "move_child",
                   parent |-> vdom_root.children[1].web_element,
                   from |-> js[displaced[k]], to |-> displaced[k] - 1]
          /\ js[displaced[k]] > displaced[k] - 1
          /\ \A c \in 1..Len(host.calls) :
                OfItsDiff(host.calls[c], displaced[k]) => c < moves[k]
    /\ \A i \in 1..Len(js) :
          js[i] # -1 =>
              \A c \in Range(host.calls) : ~OnItsNode(c, i)
    /\ host.nodes[vdom_root.children[1].web_element].kids
          = [i \in 1..Len(NewKids) |-> NewKids[i].web_element]

\* C29: move_child(parent, j, nextIndex) is issued for a matched
\* candidate exactly when its match index j is not nextIndex, and then
\* j > nextIndex; it comes after the node's listener diff, attribute
\* diff, children and child cleanup; the shadow list is reordered as the
\* document is; a matched node is never created, inserted or removed.
C29_MoveIffDisplaced ==
    RootKept =>
        MovesWhereDisplaced(LevelMatches, Displaced(LevelMatches), MovePositions)

C29_Witness ==
    /\ RootKept
    /\ app = "rows"
    /\ LevelMatches = <<1, 1>>
    /\ Len(MovePositions) = 1
    /\ MovePositions[1] = Len(host.calls)
    /\ \E c \in 1..Len(host.calls) : host.calls[c].op = "remove_node"
    /\ \E c \in 1..Len(host.calls) : host.calls[c].op = "add_listener"
    /\ \E c \in 1..Len(host.calls) : host.calls[c].op = "set_attribute"

\* ----------------------------------------------------------------- C30
RECURSIVE SubtreeHandles(_)
\* The handles of the nodes of a shadow level and below.
SubtreeHandles(level) ==
    UNION {{level[k].web_element} \cup SubtreeHandles(level[k].children) :
           k \in 1..Len(level)}

RECURSIVE Placed(_, _)
\* Every node of a shadow level and below, with its parent and its index.
Placed(level, parent) ==
    UNION {{[vnode |-> level[k], parent |-> parent, index |-> k - 1]}
              \cup Placed(level[k].children, level[k].web_element) :
           k \in 1..Len(level)}

\* The positions of the calls that satisfy P.
CallsAt(P(_)) == {c \in 1..Len(host.calls) : P(host.calls[c])}

IsCreate(c) == c.op \in {"create_element", "create_text"}

\* The call is issued on one of the nodes hs, or on the children of one.
IsOn(c, hs) ==
    CASE c.op \in {"insert_child", "move_child"} -> c.parent \in hs
      [] OTHER -> c.node \in hs

Latest(S) == CHOOSE c \in S : \A d \in S : d <= c

\* The calls on the new node e.vnode created at position p: ls attach
\* its listeners, as set its attributes, ds are the calls on its
\* descendants and its children from p on, and is insert it.
BuiltThenInserted(e, p, ls, as, ds, is) ==
    /\ Cardinality(ls) = Len(e.vnode.listeners)
    /\ Cardinality(as) = Len(e.vnode.attributes)
    /\ \A l \in ls : p < l
    /\ \A l \in ls, a \in as : l < a
    /\ \A c \in {p} \cup ls \cup as, d \in ds : c < d
    /\ \A d \in ds :
          host.calls[d].op \in {"create_element", "create_text", "add_listener",
                                "set_attribute", "insert_child"}
    /\ \A c \in 1..Len(host.calls) :
          (c > p /\ IsOn(host.calls[c], {e.vnode.web_element}))
              => host.calls[c].op \in {"add_listener", "set_attribute",
                                       "insert_child"}
    /\ Cardinality(is) = 1
    /\ \A i \in is :
          /\ host.calls[i] = [op |-> "insert_child", parent |-> e.parent,
                              index |-> e.index, child |-> e.vnode.web_element]
          /\ \A c \in {p} \cup ls \cup as \cup ds : c < i

BuiltAt(e, p) ==
    BuiltThenInserted(e, p,
        CallsAt(LAMBDA c : c.op = "add_listener"
                              /\ c.node = e.vnode.web_element),
        CallsAt(LAMBDA c : c.op = "set_attribute"
                              /\ c.node = e.vnode.web_element),
        {d \in CallsAt(LAMBDA c : IsOn(c, SubtreeHandles(e.vnode.children))
                                     \/ (c.op = "insert_child"
                                           /\ c.parent = e.vnode.web_element)) :
            d > p},
        {i \in CallsAt(LAMBDA c : c.op = "insert_child"
                                     /\ c.child = e.vnode.web_element) : i > p})

\* The nodes of the shadow tree the pass created.
CreatedNodes ==
    {e \in Placed(vdom_root.children, RootElement) :
        CallsAt(LAMBDA c : IsCreate(c) /\ c.node = e.vnode.web_element) # {}}

\* C30: for an unmatched candidate the host node is created first, then
\* all its listeners are attached, then all its attributes are set, then
\* its subtree is built beneath it by creations and insertions only, and
\* only then is it inserted into its parent at nextIndex, where the
\* shadow list holds it.
C30_BuiltBeforeInserted ==
    pc = "idle" =>
        \A e \in CreatedNodes :
            BuiltAt(e, Latest(CallsAt(LAMBDA c : IsCreate(c)
                                         /\ c.node = e.vnode.web_element)))

C30_Witness ==
    /\ pc = "idle"
    /\ app = "rows"
    /\ cycle.n = 0
    /\ Len(vdom_root.children[1].children) = 2
    /\ Len(vdom_root.children[1].children[2].children) = 1
    /\ Len(vdom_root.children[1].children[1].listeners) = 1
    /\ Cardinality(CreatedNodes) = 4
    /\ host.calls[Len(host.calls)].op = "insert_child"
    /\ host.calls[Len(host.calls)].parent = RootElement

\* ----------------------------------------------------------------- C31
RECURSIVE Scoped(_, _, _)
\* Every node of a shadow level and below, with the host element of its
\* parent and the host elements of all the nodes above it.
Scoped(level, parent, above) ==
    UNION {{[vnode |-> level[k], parent |-> parent, above |-> above]}
              \cup Scoped(level[k].children, level[k].web_element,
                          above \cup {level[k].web_element}) :
           k \in 1..Len(level)}

OldScoped == Scoped(before.vdom.children, before.vdom.web_element, {})

NewScoped == Scoped(vdom_root.children, vdom_root.web_element, {})

\* The host elements the pass created.
CreatedHandles ==
    {host.calls[c].node : c \in CallsAt(LAMBDA call : IsCreate(call))}

\* The host elements the pass took out of the document.
RemovedHandles ==
    {host.calls[c].node : c \in CallsAt(LAMBDA call : call.op = "remove_node")}

\* The shadow node e of the new tree was matched, not created.
Kept(e) == e.vnode.web_element \notin CreatedHandles

\* The matched node e was a child of the same parent before the pass, and
\* that parent was matched too.
SameParent(e, old) ==
    /\ e.parent \notin CreatedHandles
    /\ \E o \in old :
          /\ o.vnode.web_element = e.vnode.web_element
          /\ o.parent = e.parent
          /\ o.vnode.keys = e.vnode.keys
          /\ o.vnode.value = e.vnode.value

\* The scan of the children of a matched node starts at its first shadow
\* child: if that child has the key path and value of the first candidate
\* it is the one matched.
FreshCursor(e, old) ==
    \A o \in old :
       (/\ o.vnode.web_element = e.vnode.web_element
        /\ o.vnode.children # <<>>
        /\ e.vnode.children # <<>>
        /\ o.vnode.children[1].keys = e.vnode.children[1].keys
        /\ o.vnode.children[1].value = e.vnode.children[1].value)
           => e.vnode.children[1].web_element = o.vnode.children[1].web_element

\* An old node that was not matched under its own parent left the
\* document, by itself or with a node above it.
MatchedOrRemoved(o, new) ==
    \/ \E e \in new :
          /\ Kept(e)
          /\ e.vnode.web_element = o.vnode.web_element
          /\ e.parent = o.parent
    \/ (o.above \cup {o.vnode.web_element}) \cap RemovedHandles # {}

ScopedToLevel(old, new) ==
    /\ \A e \in new : Kept(e) => (SameParent(e, old) /\ FreshCursor(e, old))
    /\ \A o \in old : MatchedOrRemoved(o, new)

\* C31: a candidate is matched only against the shadow children of the
\* shadow node its parent was matched to, scanned from index 0: a shadow
\* node that is kept by a pass keeps its parent, and a node that shows up
\* under another parent is created there while the old one is removed.
C31_MatchScopedToSiblings == PassDone => ScopedToLevel(OldScoped, NewScoped)

C31_Witness ==
    /\ PassDone
    /\ app = "pair"
    /\ before.rendered = RenderPair([left |-> FALSE, right |-> TRUE])
    /\ rendered = RenderPair([left |-> TRUE, right |-> FALSE])
    /\ Len(host.calls) = 3
    /\ host.calls[1].op = "create_text"
    /\ host.calls[2] = [op |-> "insert_child",
                        parent |-> vdom_root.children[1].children[1].web_element,
                        index |-> 0, child |-> host.calls[1].node]
    /\ host.calls[3] = [op |-> "remove_node",
                        node |-> before.vdom.children[1].children[2].children[1].web_element]
    /\ host.calls[3].node # host.calls[1].node

\* ----------------------------------------------------------------- C32
\* The shadow node now is the shadow node old: the same host element, still
\* of the same tag or text in the document, the same value and key path,
\* and the pass created no host node for it.
SameNode(old, now) ==
    /\ now.web_element = old.web_element
    /\ now.value = old.value
    /\ now.keys = old.keys
    /\ host.nodes[now.web_element].name = old.value.s
    /\ host.nodes[now.web_element].kind
          = (IF old.value.kind = "Tag" THEN "element" ELSE "text")
    /\ \A c \in Range(host.calls) : IsCreate(c) => c.node # old.web_element

\* The children of the root the candidates matched are kept as they were.
MatchedKept(choices) ==
    \A i \in 1..Len(rendered.children) :
       choices[i].h # -1 =>
           \E j \in 1..Len(OldKids) :
              /\ OldKids[j].web_element = choices[i].h
              /\ SameNode(OldKids[j], NewKids[i])

\* C32: a shadow node a candidate matched keeps its host node handle, its
\* tag or text value and its key path through the pass, and no
\* create_element or create_text is issued for it.
C32_MatchedNodeKeepsIdentity ==
    RootKept =>
        /\ SameNode(before.vdom.children[1], vdom_root.children[1])
        /\ MatchedKept(LevelChoices(FALSE))

C32_Witness ==
    /\ RootKept
    /\ app = "rows"
    /\ Len(OldKids) = 2
    /\ Len(NewKids) = 2
    /\ LevelChoices(FALSE)[1].h = OldKids[2].web_element
    /\ LevelChoices(FALSE)[2].h = OldKids[1].web_element
    /\ OldKids[2].attributes # NewKids[1].attributes
    /\ OldKids[2].listeners # NewKids[1].listeners
    /\ OldKids[2].children # NewKids[1].children
    /\ NewKids[1].keys = OldKids[2].keys
    /\ CallsOf({"move_child"}) # <<>>

\* ------------------------------------------------- a pass, loop by loop
\* SpecPass runs one pass of handle_listener one loop iteration at a time.
\* cycle is the call stack: one frame per process_all in progress, the
\* innermost last.  A frame holds the accumulator (keys, parent_element,
\* node_level, node_index), the collection nodes with the position k of
\* process_all in it, and the locals of add_node: node_keys, trial_index,
\* vnode_index (-1 is None), the vnode under work as <<>> or <<vnode>>, the
\* loop index i and child_node_index.  state counts the iterations made.
PassApps == {"list", "rows", "pair", "attrs", "listeners", "text"}

\* The iteration counts stop at StepCap.
StepCap == 4

Counted(n) == IF n < StepCap THEN n + 1 ELSE n

NoSteps == [scan |-> 0, listeners |-> 0, attributes |-> 0, cleanup |-> 0,
            depth |-> 1]

Frame(nodes, keys, parent_element, node_level) ==
    [nodes |-> nodes, k |-> 0, keys |-> keys,
     parent_element |-> parent_element, node_level |-> node_level,
     node_index |-> 0, node_keys |-> KeysNew, trial_index |-> 0,
     vnode_index |-> -1, vnode |-> <<>>, i |-> 0, child_node_index |-> 0]

Top == cycle[Len(cycle)]

\* The stack with its innermost frame replaced.
WithTop(f) == [cycle EXCEPT ![Len(cycle)] = f]

\* The candidate add_node is working on.
Candidate == Top.nodes[Top.k + 1]

\* The accumulator of the innermost frame.
TopAcc ==
    WebWriterAcc(host, Top.keys, Top.parent_element, Top.node_level,
                 Top.node_index)

\* Between two events: the tree of one state is drawn, the next is rendered.
PassInit ==
    /\ app \in PassApps
    /\ state = NoSteps
    /\ \E st0 \in States(app), st1 \in States(app) :
         /\ rendered = Render(app, st1)
         /\ vdom_root = Mounted(st0).root
         /\ host = [Mounted(st0).h EXCEPT !.calls = <<>>]
         /\ before = [vdom |-> Mounted(st0).root,
                      rendered |-> Render(app, st0),
                      host |-> [Mounted(st0).h EXCEPT !.calls = <<>>]]
         /\ cycle = <<Frame(<<Render(app, st1)>>, KeysNew,
                            Mounted(st0).root.web_element,
                            Mounted(st0).root.children)>>
    /\ pc = "next"

\* The scan stays on the trial index that did not match.
ScanStay(trial_index) == trial_index

\* `trial_index += 1`
ScanNext(trial_index) == trial_index + 1

\* The frame the caller resumes in when process_all of the children
\* returns: the children and child_node_index are those the callee left.
Returned(caller, callee) ==
    [caller EXCEPT !.vnode[1].children = callee.node_level,
                   !.child_node_index = callee.node_index]

\* process_all: the next node of the collection goes to add_node, which
\* computes its keys; after the last one process_all returns, to the
\* cleanup of the caller or to handle_listener.
ProcessAllStep ==
    /\ pc = "next"
    /\ IF host.panicked
       THEN pc' = "crashed" /\ UNCHANGED <<cycle, vdom_root>>
       ELSE IF Top.k < Len(Top.nodes)
       THEN /\ pc' = IF Candidate.key # <<>> /\ KeysFull(Top.keys)
                     THEN "crashed" ELSE "scan"
            /\ cycle' = WithTop([Top EXCEPT
                                    !.node_keys = NodeKeys(Top.keys, Candidate),
                                    !.trial_index = ScanStart(Top.node_index),
                                    !.vnode_index = -1,
                                    !.vnode = <<>>])
            /\ UNCHANGED vdom_root
       ELSE IF Len(cycle) > 1
       THEN /\ pc' = "cleanup"
            /\ cycle' = [SubSeq(cycle, 1, Len(cycle) - 1) EXCEPT
                            ![Len(cycle) - 1] = Returned(@, Top)]
            /\ UNCHANGED vdom_root
       ELSE /\ pc' = "done"
            /\ vdom_root' = [vdom_root EXCEPT !.children = Top.node_level]
            /\ UNCHANGED cycle
    /\ UNCHANGED <<app, state, rendered, host, before>>

\* One iteration of the match scan.
ScanStep ==
    /\ pc = "scan"
    /\ IF Top.trial_index < Len(Top.node_level)
       THEN IF IsMatch(Top.node_level[Top.trial_index + 1], Top.node_keys,
                       VNodeValueOf(Candidate))
            THEN /\ cycle' = WithTop([Top EXCEPT
                                 !.vnode_index = Top.trial_index,
                                 !.vnode = <<Top.node_level[Top.trial_index + 1]>>,
                                 !.i = 0])
                 /\ pc' = "remove_listeners"
            ELSE /\ cycle' = WithTop([Top EXCEPT
                                 !.trial_index = ScanNext(Top.trial_index)])
                 /\ pc' = pc
       ELSE /\ cycle' = cycle
            /\ pc' = "create"
    /\ state' = [state EXCEPT !.scan = Counted(@)]
    /\ UNCHANGED <<app, rendered, vdom_root, host, before>>

\* One iteration of "Remove excess listeners".
RemoveListenersStep ==
    /\ pc = "remove_listeners"
    /\ IF Top.i < Len(Top.vnode[1].listeners)
       THEN /\ pc' = pc
            /\ state' = [state EXCEPT !.listeners = Counted(@)]
            /\ IF ~\E k \in 1..Len(Candidate.listeners) :
                      SameListener(Top.vnode[1].listeners[Top.i + 1],
                                   Candidate.listeners[k])
               THEN /\ host' = PoolFree(
                                 HostRemoveListener(host, Top.vnode[1].web_element,
                                     Top.vnode[1].listeners[Top.i + 1].ev,
                                     Top.vnode[1].listeners[Top.i + 1].element),
                                 Top.vnode[1].listeners[Top.i + 1].element)
                    /\ cycle' = WithTop([Top EXCEPT
                                    !.vnode[1].listeners = RemoveAt(@, Top.i)])
               ELSE /\ host' = host
                    /\ cycle' = WithTop([Top EXCEPT !.i = @ + 1])
       ELSE /\ pc' = "add_listeners"
            /\ UNCHANGED <<state, host, cycle>>
    /\ UNCHANGED <<app, rendered, vdom_root, before>>

\* The vnode under work and the host after a diff step r = [h, vnode].
Diffed(r, next) ==
    /\ host' = r.h
    /\ cycle' = WithTop([Top EXCEPT !.vnode = <<r.vnode>>, !.i = 0])
    /\ pc' = next

\* "Add new listeners": a for loop over the candidate's listeners.
AddListenersStep ==
    /\ pc = "add_listeners"
    /\ Diffed(AddNewListeners([h |-> host, vnode |-> Top.vnode[1]],
                              Candidate.listeners, Top.node_keys),
              "remove_attributes")
    /\ UNCHANGED <<app, state, rendered, vdom_root, before>>

\* One iteration of "Remove excess attributes".
RemoveAttributesStep ==
    /\ pc = "remove_attributes"
    /\ IF Top.i < Len(Top.vnode[1].attributes)
       THEN /\ pc' = pc
            /\ state' = [state EXCEPT !.attributes = Counted(@)]
            /\ IF ~\E k \in 1..Len(Candidate.attributes) :
                      Candidate.attributes[k] = Top.vnode[1].attributes[Top.i + 1]
               THEN /\ host' = HostRemoveAttribute(host, Top.vnode[1].web_element,
                                    Top.vnode[1].attributes[Top.i + 1][1])
                    /\ cycle' = WithTop([Top EXCEPT
                                    !.vnode[1].attributes = RemoveAt(@, Top.i)])
               ELSE /\ host' = host
                    /\ cycle' = WithTop([Top EXCEPT !.i = @ + 1])
       ELSE /\ pc' = "add_attributes"
            /\ UNCHANGED <<state, host, cycle>>
    /\ UNCHANGED <<app, rendered, vdom_root, before>>

\* The call of process_all on the children of the vnode under work.
Descend(vnode, level) ==
    /\ cycle' = Append(WithTop([Top EXCEPT !.vnode = <<vnode>>]),
                       Frame(Candidate.children,
                             ChildKeys(Top.keys, Top.node_keys),
                             vnode.web_element, level))
    /\ state' = [state EXCEPT
                    !.depth = IF Len(cycle) + 1 > @ THEN Len(cycle) + 1 ELSE @]
    /\ pc' = "next"

\* The host and the stack after "Add new attributes" left r = [h, vnode]:
\* "To the children!".
ToTheChildren(r) ==
    /\ host' = r.h
    /\ Descend(r.vnode, r.vnode.children)

AddAttributesStep ==
    /\ pc = "add_attributes"
    /\ ToTheChildren(AddNewAttributes([h |-> host, vnode |-> Top.vnode[1]],
                                      Candidate.attributes))
    /\ UNCHANGED <<app, rendered, vdom_root, before>>

\* The new vnode of the element c = [h, id] with its listeners ls =
\* [h, listeners] attached, its attributes set, and its children started
\* from an empty level.
Constructed(c, ls) ==
    /\ host' = SetAttributes(ls.h, c.id, Candidate.attributes)
    /\ Descend(VDomNode(VNodeValueOf(Candidate), Top.node_keys, c.id,
                        Candidate.attributes, ls.listeners, <<>>),
               <<>>)

Listening(c) ==
    Constructed(c, SetListeners([h |-> c.h, listeners |-> <<>>], c.id,
                                Candidate.listeners, Top.node_keys))

\* "Construct as a new element", up to the call on the children.
CreateStep ==
    /\ pc = "create"
    /\ Listening(IF Candidate.value.kind = "Tag"
                 THEN HostCreateElement(host, Candidate.value.s)
                 ELSE HostCreateTextNode(host, Candidate.value.s))
    /\ UNCHANGED <<app, rendered, vdom_root, before>>

\* One iteration of "Remove DOM elements left over from the last render
\* that weren't repurposed".
CleanupStep ==
    /\ pc = "cleanup"
    /\ IF Top.child_node_index < Len(Top.vnode[1].children)
       THEN /\ host' = DropVNode(
                          HostRemoveSelf(host,
                              Top.vnode[1].children[Len(Top.vnode[1].children)]
                                  .web_element),
                          Top.vnode[1].children[Len(Top.vnode[1].children)])
            /\ cycle' = WithTop([Top EXCEPT !.vnode[1].children =
                                    SubSeq(@, 1, Len(@) - 1)])
            /\ state' = [state EXCEPT !.cleanup = Counted(@)]
            /\ pc' = pc
       ELSE /\ pc' = IF Top.vnode_index = -1 THEN "insert" ELSE "move"
            /\ UNCHANGED <<host, cycle, state>>
    /\ UNCHANGED <<app, rendered, vdom_root, before>>

\* add_node returns Ok(()) with the accumulator acc.
Returns(acc) ==
    /\ host' = acc.h
    /\ cycle' = WithTop([Top EXCEPT !.node_level = acc.node_level,
                                    !.node_index = acc.node_index,
                                    !.k = @ + 1])
    /\ pc' = "next"

\* "Move the element if the new index is different from the old one"
MoveStep ==
    /\ pc = "move"
    /\ Returns(ModifyMove(TopAcc, Top.vnode_index, Top.vnode[1],
                          [h |-> host, children |-> Top.vnode[1].children]))
    /\ UNCHANGED <<app, state, rendered, vdom_root, before>>

\* acc.parent_element.insert(..); acc.node_level.insert(..)
InsertStep ==
    /\ pc = "insert"
    /\ Returns(ConstructInsert(TopAcc, Top.vnode[1],
                               [h |-> host, children |-> Top.vnode[1].children]))
    /\ UNCHANGED <<app, state, rendered, vdom_root, before>>

PassNext ==
    \/ ProcessAllStep \/ ScanStep \/ RemoveListenersStep \/ AddListenersStep
    \/ RemoveAttributesStep \/ AddAttributesStep \/ CreateStep \/ CleanupStep
    \/ MoveStep \/ InsertStep

\* The pass runs on one thread and nothing suspends it: a step that can be
\* taken is taken.
SpecPass == PassInit /\ [][PassNext]_vars /\ WF_vars(PassNext)

\* The pass the steps have made is the pass r = [h, root] of process_all.
SamePass(r) == host = r.h /\ vdom_root = r.root

\* Run to its end, the loop-by-loop pass leaves the host and the shadow
\* tree that the pass taken as a whole leaves.
StepsAgree ==
    pc = "done" => SamePass(TopLevelPass(before.host, before.vdom, rendered))

\* ----------------------------------------------------------------- C33
\* C33: every pass terminates: the match scan, the listener-removal and
\* attribute-removal loops, the child-cleanup loop and the recursion
\* finish, and control is back in handle_listener with the call stack
\* unwound.
C33_PassTerminates == <>(pc = "done" /\ Len(cycle) = 1)

C33_Witness ==
    /\ pc = "done"
    /\ Len(cycle) = 1
    /\ state.scan >= 4
    /\ state.listeners >= 2
    /\ state.attributes >= 2
    /\ state.cleanup >= 1
    /\ state.depth = 4
    /\ CallsOf({"move_child"}) # <<>>
    /\ CallsOf({"remove_listener"}) # <<>>
    /\ CallsOf({"remove_attribute"}) # <<>>

\* ----------------------------------------------------------------- C34
RECURSIVE DocumentBelow(_)
\* The document below the host element id: its kind, its tag or text, its
\* properties and its children.
DocumentBelow(id) ==
    [kind |-> host.nodes[id].kind, name |-> host.nodes[id].name,
     attrs |-> host.nodes[id].attrs,
     kids |-> [k \in 1..Len(host.nodes[id].kids) |->
                  DocumentBelow(host.nodes[id].kids[k])]]

\* The map of a list of attributes: a later entry of a name stands.
AttributeMap(attributes) ==
    [n \in {attributes[k][1] : k \in 1..Len(attributes)} |->
        attributes[CHOOSE k \in 1..Len(attributes) :
                      /\ attributes[k][1] = n
                      /\ \A j \in (k + 1)..Len(attributes) : attributes[j][1] # n][2]]

RECURSIVE Rendering(_)
\* A logical tree as a document.
Rendering(node) ==
    [kind |-> IF node.value.kind = "Tag" THEN "element" ELSE "text",
     name |-> node.value.s,
     attrs |-> AttributeMap(node.attributes),
     kids |-> [k \in 1..Len(node.children) |-> Rendering(node.children[k])]]

\* C34: after the mount and after every completed pass the document below
\* the mount element is the rendering of the latest logical tree: the same
\* nesting and order of nodes, the same tag or text at each node and the
\* same attribute map at each element.
C34_DocumentIsRendering ==
    pc = "idle" => DocumentBelow(RootElement).kids = <<Rendering(rendered)>>

\* A pass has replaced the root node and the old root is still in the
\* document.
C34_Witness ==
    /\ PassDone
    /\ app = "top"
    /\ before.rendered.value # rendered.value
    /\ Len(DocumentBelow(RootElement).kids) = 2
    /\ DocumentBelow(RootElement).kids[1] = Rendering(rendered)
    /\ DocumentBelow(RootElement).kids[2].name = before.rendered.value.s

\* ----------------------------------------------------------------- C35
\* The index of an insert_child is not negative, and a move_child goes
\* from a higher index to a lower one that is not negative.
IndexInOrder(c) ==
    CASE c.op = "insert_child" -> 0 <= c.index
      [] c.op = "move_child" -> 0 <= c.to /\ c.to < c.from
      [] OTHER -> TRUE

\* C35: every index the reconciler hands to the host is in bounds for the
\* parent's children as they are at the call: the host rejects an
\* insert_child past the child count and a move_child from or to an index
\* out of range by a panic, and no pass panics unless the browser itself
\* fails a call; a move goes from an index to a lower one.
C35_IndicesInBounds ==
    /\ host.panicked => FaultHit(host)
    /\ pc = "crashed" => FaultHit(host)
    /\ \A c \in Range(host.calls) : IndexInOrder(c)

C35_Witness ==
    /\ ListPass
    /\ OldKeys = <<0, 1>>
    /\ NewKeys = <<1, 0, 2>>
    /\ ~host.panicked
    /\ host.calls[1] = [op |-> "move_child",
                        parent |-> vdom_root.children[1].web_element,
                        from |-> 1, to |-> 0]
    /\ host.calls[Len(host.calls)]
          = [op |-> "insert_child", parent |-> vdom_root.children[1].web_element,
             index |-> 2, child |-> NewKids[3].web_element]
    /\ Len(host.nodes[vdom_root.children[1].web_element].kids) = 3

\* ----------------------------------------------------------------- C36
RECURSIVE PathsCarried(_, _, _)
\* Each shadow node of a level holds the key path of its candidate: the
\* path of the parent for an unkeyed node, that path with the node's key
\* appended for a keyed one; and so below.
PathsCarried(level, nodes, parent) ==
    \A i \in 1..Len(nodes) :
       /\ i <= Len(level)
       /\ level[i].keys.size = parent.size + Len(nodes[i].key)
       /\ KeyIterSeq(level[i].keys) = KeyIterSeq(parent) \o nodes[i].key
       /\ PathsCarried(level[i].children, nodes[i].children, level[i].keys)

\* A kept shadow node has the key path it had: as long as before the pass
\* and of the same keys.
SamePath(e, old) ==
    \A o \in old :
       o.vnode.web_element = e.vnode.web_element =>
           /\ o.vnode.keys.size = e.vnode.keys.size
           /\ KeyIterSeq(o.vnode.keys) = KeyIterSeq(e.vnode.keys)

KeyedAlike(old, new) == \A e \in new : Kept(e) => SamePath(e, old)

\* C36: a keyed candidate never matches an unkeyed shadow sibling nor an
\* unkeyed candidate a keyed one, whatever their tags: an unkeyed node
\* carries the key path of its parent, a keyed node that path extended by
\* its key, a key of 0 included, and a node a pass keeps had the path its
\* candidate has.
C36_KeyedNeverMatchesUnkeyed ==
    /\ pc = "idle" => PathsCarried(vdom_root.children, <<rendered>>, KeysNew)
    /\ PassDone => KeyedAlike(OldScoped, NewScoped)

C36_Witness ==
    /\ PassDone
    /\ app = "text"
    /\ Len(OldKids) = 1
    /\ Len(NewKids) = 1
    /\ before.rendered.children[1].key = <<>>
    /\ rendered.children[1].key = <<0>>
    /\ before.rendered.children[1].value = rendered.children[1].value
    /\ OldKids[1].keys.size = 0
    /\ NewKids[1].keys.size = 1
    /\ OldKids[1].keys.stack = NewKids[1].keys.stack
    /\ CallsOf({"create_text"}) # <<>>
    /\ CallsOf({"remove_node"}) # <<>>

\* ----------------------------------------------------------------- C37
\* The frames under the innermost one keep their sibling lists and their
\* cursors through the step.
OuterLevelsKept ==
    \A d \in 1..(Len(cycle) - 1) :
       d <= Len(cycle') =>
           /\ cycle'[d].node_level = cycle[d].node_level
           /\ cycle'[d].node_index = cycle[d].node_index

\* The sibling list new is the list old with the node x put at the cursor
\* n and the others left as they were: the committed ones before n in
\* place, the rest in their order.
PlacedAtCursor(old, new, n, x, others) ==
    /\ SubSeq(new, 1, n) = SubSeq(old, 1, n)
    /\ new[n + 1].web_element = x
    /\ RemoveAt(new, n) = others

\* What a step of add_node does to the sibling list it works on: the
\* insertion puts the new node at the cursor, the move brings the matched
\* node to the cursor, and no other step touches the list.
LevelStep(old, new) ==
    CASE pc = "insert" ->
             /\ PlacedAtCursor(old.node_level, new.node_level, old.node_index,
                               old.vnode[1].web_element, old.node_level)
             /\ new.node_index = old.node_index + 1
      [] pc = "move" ->
             /\ PlacedAtCursor(old.node_level, new.node_level, old.node_index,
                               old.vnode[1].web_element,
                               RemoveAt(old.node_level, old.vnode_index))
             /\ new.node_index = old.node_index + 1
      [] OTHER ->
             /\ new.node_level = old.node_level
             /\ new.node_index = old.node_index

CandidateStep ==
    /\ OuterLevelsKept
    /\ Len(cycle') >= Len(cycle) => LevelStep(Top, cycle'[Len(cycle)])

\* C37: processing one candidate leaves the shadow siblings before the
\* cursor untouched, keeps the relative order of all the other siblings,
\* and changes no shadow node outside the current sibling list and the
\* subtree of the matched or new node.
C37_OtherSiblingsKept == [][CandidateStep]_vars

C37_Witness ==
    /\ pc = "next"
    /\ app = "list"
    /\ Len(cycle) = 2
    /\ Top.k = 2
    /\ Top.vnode_index = 2
    /\ Top.node_index = 2
    /\ Len(before.vdom.children[1].children) = 3
    /\ [i \in 1..3 |-> Top.node_level[i].web_element]
          = <<before.vdom.children[1].children[2].web_element,
              before.vdom.children[1].children[3].web_element,
              before.vdom.children[1].children[1].web_element>>

\* ------------------------------------------------------- the key stack
\* KeyStack of key_stack.rs: vdom_root is the stack, state the keys it
\* holds from the bottom up, rendered the size it started with, cycle the
\* last call made on it.

\* KeyStack::new
KeyStackNew == [size |-> 0, stack |-> [i \in 0..(KEY_STACK_LEN - 1) |-> 0]]

\* KeyStack::push: a new stack with the key on top; self is not changed.
push(s, key) ==
    [size |-> s.size + 1, stack |-> [s.stack EXCEPT ![s.size] = key]]

\* KeyStack::pop: (a new stack of one key less with the array of self, the
\* key on top); self is not changed.
pop(s) ==
    [stack |-> [size |-> s.size - 1, stack |-> s.stack],
     key |-> s.stack[s.size - 1]]

StackInit ==
    /\ app = "stack"
    /\ \E n \in {0, KEY_STACK_LEN - 2}, k \in 0..(NumKeys - 1) :
          /\ vdom_root = [size |-> n,
                          stack |-> [i \in 0..(KEY_STACK_LEN - 1) |->
                                        IF i < n THEN k ELSE 0]]
          /\ state = [i \in 1..n |-> k]
          /\ rendered = n
    /\ host = <<>>
    /\ pc = "stack"
    /\ cycle = [op |-> "new"]
    /\ before = NoPass

\* s = s.push(key); a push onto a full stack panics (debug_assert, and the
\* index is out of the array).
StackPush ==
    /\ pc = "stack"
    /\ Len(state) < rendered + MaxDepth
    /\ \E key \in 0..(NumKeys - 1) :
          IF vdom_root.size < KEY_STACK_LEN
          THEN /\ vdom_root' = push(vdom_root, key)
               /\ state' = Append(state, key)
               /\ cycle' = [op |-> "push", key |-> key]
               /\ pc' = pc
          ELSE /\ pc' = "crashed"
               /\ cycle' = [op |-> "push", key |-> key]
               /\ UNCHANGED <<vdom_root, state>>
    /\ UNCHANGED <<app, rendered, host, before>>

\* s = s.pop().0, of a key pushed here; a pop from an empty stack panics
\* (debug_assert, and the index is out of the array).
StackPop ==
    /\ pc = "stack"
    /\ Len(state) > rendered \/ vdom_root.size = 0
    /\ IF vdom_root.size > 0
       THEN /\ vdom_root' = pop(vdom_root).stack
            /\ state' = SubSeq(state, 1, Len(state) - 1)
            /\ cycle' = [op |-> "pop", key |-> state[Len(state)]]
            /\ pc' = pc
       ELSE /\ pc' = "crashed"
            /\ cycle' = [op |-> "pop"]
            /\ UNCHANGED <<vdom_root, state>>
    /\ UNCHANGED <<app, rendered, host, before>>

\* let r = s.push(key).pop(); on a stack of fewer than KEY_STACK_LEN keys.
StackPushPop ==
    /\ pc = "stack"
    /\ vdom_root.size < KEY_STACK_LEN
    /\ \E key \in 0..(NumKeys - 1) :
          cycle' = [op |-> "push_pop", key |-> key, self |-> vdom_root,
                    out |-> pop(push(vdom_root, key))]
    /\ UNCHANGED <<app, state, rendered, vdom_root, host, pc, before>>

StackNext == StackPush \/ StackPop \/ StackPushPop

SpecStack == StackInit /\ [][StackNext]_vars

\* ----------------------------------------------------------------- C38
\* The derived equality of KeyStack: the sizes and the whole arrays.
DerivedEq(s, t) == s.size = t.size /\ s.stack = t.stack

\* The stacks hold the same keys.
SameKeys(s, t) ==
    /\ s.size = t.size
    /\ \A i \in 0..(KEY_STACK_LEN - 1) : get_at(s, i) = get_at(t, i)

\* C38: for every stack s of fewer than 32 keys and every key k,
\* s.push(k).pop() returns k and a stack equal to s under the derived
\* equality, and s itself is unchanged.
C38_PushPopIdentity ==
    cycle.op = "push_pop" =>
        /\ cycle.out.key = cycle.key
        /\ DerivedEq(cycle.out.stack, cycle.self)
        /\ vdom_root = cycle.self

\* push then pop gave back the key and a stack of the same keys that is
\* not equal to s: the slot above the top holds the key.
C38_Witness ==
    /\ cycle.op = "push_pop"
    /\ cycle.self = KeyStackNew
    /\ cycle.key = 1
    /\ cycle.out.key = 1
    /\ SameKeys(cycle.out.stack, cycle.self)
    /\ vdom_root = cycle.self
    /\ cycle.out.stack.stack[0] = 1
    /\ ~DerivedEq(cycle.out.stack, cycle.self)

\* ----------------------------------------------------------------- C39
RECURSIVE BuiltFrom(_, _)
\* The key path built from ks by pushing the keys of q in order.
BuiltFrom(ks, q) ==
    IF q = <<>> THEN ks ELSE BuiltFrom(KeysPush(ks, Head(q)), Tail(q))

\* Sequences of keys: up to MaxDepth keys, alone or on top of
\* KEY_STACK_LEN - 2 equal keys.
KeySeqs ==
    UNION {[1..n -> 0..(NumKeys - 1)] : n \in 0..MaxDepth}

RefPaths ==
    KeySeqs \cup {[i \in 1..(KEY_STACK_LEN - 2) |-> k] \o q :
                     k \in 0..(NumKeys - 1),
                     q \in {p \in KeySeqs : Len(p) <= 2}}

\* Every slot at or above the size is 0.
ZeroAbove(ks) ==
    \A i \in 0..(KEY_STACK_LEN - 1) : i >= ks.size => ks.stack[i] = 0

\* C39: two key paths built by Keys::new and Keys::push are equal exactly
\* when they hold the same sequence of keys: every slot at or above the
\* size of a path is 0, so the unused slots do not tell two paths apart.
C39_EqualIffSameKeys ==
    pc = "path" =>
        /\ ZeroAbove(vdom_root)
        /\ \A q \in RefPaths : (vdom_root = BuiltFrom(KeysNew, q)) <=> (state = q)

C39_Witness ==
    /\ pc = "path"
    /\ state = <<1, 0>>
    /\ vdom_root = BuiltFrom(KeysNew, <<1, 0>>)
    /\ vdom_root.stack = BuiltFrom(KeysNew, <<1>>).stack
    /\ vdom_root # BuiltFrom(KeysNew, <<1>>)
    /\ KeyIterSeq(vdom_root) = <<1, 0>>

====
